---- MODULE Spec2Model ----
(***************************************************************************)
(* Model of the storefront: the client-side cart store (src/lib/cart.ts),  *)
(* the quantity badge hook useCartCount and the catalog loader             *)
(* fetchCatalogProducts (src/lib/db/products.ts), the products route       *)
(* (src/app/api/products/route.ts), the catalog page                       *)
(* (src/app/catalogo/page.tsx), the product page                           *)
(* (src/app/produto/[slug]/produto-client.tsx) and the cart page with its  *)
(* checkout message (src/app/carrinho/page.tsx).                           *)
(*                                                                         *)
(* The cart lives in one localStorage slot shared by the browsing contexts *)
(* (tabs) of the origin.  Every cart operation is a synchronous function:  *)
(* it runs to completion inside one task of the context's event loop, so   *)
(* each operation is one action.  A storage event is delivered to the      *)
(* other contexts later, as a task of its own (action DeliverStorage).     *)
(* A handler of a page is one action as well: the state updates it makes   *)
(* are applied together before the next render.  The load of a view is     *)
(* split at its awaits, and SpecRace splits a store call between its read  *)
(* and its write, where another context may act.                           *)
(*                                                                         *)
(* Texts that the code reads character by character (slugs, names, search  *)
(* texts) are sequences of characters; the other texts are strings.        *)
(***************************************************************************)
EXTENDS Integers, Sequences, FiniteSets, TLC

\* ------------------------------------------------------------------ bounds
\* Largest quantity a stored line may reach (guards of the mutating actions).
MaxStored == 3
\* Largest quantity a caller requests in addToCart; requests range over -1..MaxReq.
MaxReq == 2
\* Storage events that may wait in one context's task queue.
MaxPending == 2
\* Lines of the cart page a button is pressed on (the first MaxLines lines shown).
MaxLines == 2
\* Rows the products query returns.
MaxProducts == 3
\* Rows the product_variants query returns.
MaxVariants == 3
\* Pieces a route's slug is made of.
MaxPieces == 3
\* Products the backend serves to the catalog page.
MaxCatalog == 21
\* The largest quantity of a line while two contexts race.
MaxRaceQty == 2

\* --------------------------------------------------------- program constants
STORAGE_KEY == "af_cart_v1"
CART_EVENT == "af:cart-changed"

\* The JavaScript value undefined (a property that is missing reads as it).
Undefined == "\\undefined"

Contexts == {1, 2}
Skus == {"A", "B"}

Max(a, b) == IF a >= b THEN a ELSE b

\* ------------------------------------------------------------ JS primitives
\* obj.f : a missing property reads as undefined.
Get(obj, f) == IF f \in DOMAIN obj THEN obj[f] ELSE Undefined

\* a ?? b
Coalesce(a, b) == IF a = Undefined THEN b ELSE a

\* { ...obj, f: v }
Spread(obj, f, v) == [g \in (DOMAIN obj) \cup {f} |-> IF g = f THEN v ELSE obj[g]]

\* The optional string properties of a CartItem; JSON.stringify leaves out a
\* property whose value is undefined.
OptionalFields == {"photo", "variantLabel"}

StringifyItem(i) ==
    LET kept == {g \in DOMAIN i : ~(g \in OptionalFields /\ i[g] = Undefined)}
    IN  [g \in kept |-> i[g]]

\* JSON.stringify(items): the text of a JSON array.
JSONstringify(items) ==
    [kind |-> "json",
     value |-> [t |-> "arr", elems |-> [k \in 1..Len(items) |-> StringifyItem(items[k])]]]

\* JSON.parse(raw) for a non-empty text: it throws on text that is not JSON.
JSONparse(raw) ==
    IF raw.kind = "json" THEN [ok |-> TRUE, value |-> raw.value]
    ELSE [ok |-> FALSE]

\* Array.isArray(v)
IsArray(v) == v.t = "arr"

\* The slot before anything was stored: localStorage.getItem returns null.
NullSlot == [kind |-> "null"]

\* ------------------------------------------------------------------ cart.ts
\* A variant of getCart that returns whatever JSON.parse gave, array or not.
getCartOf_NoArrayCheck(raw, readThrows) ==
    IF readThrows THEN << >>
    ELSE IF raw.kind \in {"null", "empty"} THEN << >>
    ELSE LET parsed == JSONparse(raw)
         IN  IF ~parsed.ok THEN << >>
             ELSE IF IsArray(parsed.value) THEN parsed.value.elems ELSE <<parsed.value>>

\* getCart(): raw is what getItem returns; readThrows: getItem throws.
getCartOf(raw, readThrows) ==
    IF readThrows THEN << >>
    ELSE IF raw.kind \in {"null", "empty"} THEN << >>
    ELSE LET parsed == JSONparse(raw)
         IN  IF ~parsed.ok THEN << >>
             ELSE IF IsArray(parsed.value) THEN parsed.value.elems ELSE << >>

keyOf(item) == Get(item, "sku") \o "::" \o Coalesce(Get(item, "variantLabel"), "default")

\* items.findIndex((i) => keyOf(i) === k), 1-based; 0 when there is none.
findIndex(items, k) ==
    LET hits == {n \in 1..Len(items) : keyOf(items[n]) = k}
    IN  IF hits = {} THEN 0 ELSE CHOOSE n \in hits : \A m \in hits : n <= m

\* A variant of addToCartList that pushes a new line without looking for the key.
addToCartList_AlwaysPush(items, input) ==
    Append(items, Spread(input, "qty", Max(1, input.qty)))

\* A variant of addToCartList that overwrites the quantity of an existing line.
addToCartList_Overwrite(items, input) ==
    LET idx == findIndex(items, keyOf(input))
    IN  IF idx >= 1
        THEN [items EXCEPT ![idx] = Spread(items[idx], "qty", Max(1, input.qty))]
        ELSE Append(items, Spread(input, "qty", Max(1, input.qty)))

\* The list addToCart hands to setCart.
addToCartList(items, input) ==
    LET idx == findIndex(items, keyOf(input))
    IN  IF idx >= 1
        THEN [items EXCEPT ![idx] =
                 Spread(items[idx], "qty", Max(1, items[idx].qty + Max(1, input.qty)))]
        ELSE Append(items, Spread(input, "qty", Max(1, input.qty)))

\* A variant of updateCartItemList without the filter on qty > 0.
updateCartItemList_NoFilter(items, params) ==
    LET k == keyOf(params)
    IN  [n \in 1..Len(items) |->
            IF keyOf(items[n]) # k THEN items[n]
            ELSE Spread(items[n], "qty", params.qty)]

\* A variant of updateCartItemList that adds the new quantity to the stored one.
updateCartItemList_Sum(items, params) ==
    LET k == keyOf(params)
        mapped == [n \in 1..Len(items) |->
                     IF keyOf(items[n]) # k THEN items[n]
                     ELSE Spread(items[n], "qty", items[n].qty + params.qty)]
        Positive(i) == i.qty > 0
    IN  SelectSeq(mapped, Positive)

\* The list updateCartItem hands to setCart.
updateCartItemList(items, params) ==
    LET k == keyOf(params)
        mapped == [n \in 1..Len(items) |->
                     IF keyOf(items[n]) # k THEN items[n]
                     ELSE Spread(items[n], "qty", params.qty)]
        Positive(i) == i.qty > 0
    IN  SelectSeq(mapped, Positive)

\* A variant of removeCartItemList that compares the sku alone.
removeCartItemList_BySku(items, params) ==
    LET OtherSku(i) == i.sku # params.sku
    IN  SelectSeq(items, OtherSku)

\* The list removeCartItem hands to setCart.
removeCartItemList(items, params) ==
    LET k == keyOf(params)
        Other(i) == keyOf(i) # k
    IN  SelectSeq(items, Other)

\* ------------------------------------------------------------------- state
VARIABLES
    slot,      \* the text held under STORAGE_KEY in localStorage (shared by the tabs)
    tabs,      \* the browsing contexts that are open
    pending,   \* per context: the storage events queued for it, oldest first
    badge,     \* per context: the useCartCount subscriber (mounted, count)
    last,      \* the last call: op, ctx, arg, env, slot0, before, threw, emits, heard, ret
    cartPage,  \* per context: the state of CarrinhoPage (hydrated, items, the form)
    fetched,   \* fetchCatalogProducts: the rows the two queries gave, and its result
    browse,    \* the state of CatalogoPage (items, loading, loadError, q, category, page)
    route,     \* the slug a route was entered with, and what normalizeSlug made of it
    detail,    \* the state of ProdutoClient (the slug, items, loading, loadError, the choice)
    calls      \* per context: the store call that has read the slot and not yet written

\* The state of the views and of the loader; the cart store does not touch it.
views == <<cartPage, fetched, browse, route, detail>>

vars == <<slot, tabs, pending, badge, last, cartPage, fetched, browse, route, detail, calls>>

\* The StorageEvent another context's setItem queues here.
StorageEvent == [key |-> STORAGE_KEY]

\* useState(() => 0), before the mount effect has run.
Unmounted == [mounted |-> FALSE, count |-> 0]

\* What one call works on: the storage, the queues and the subscribers, and what
\* the call has done so far (threw: an exception reached the caller; emits: the
\* CART_EVENTs dispatched; heard: what a CART_EVENT listener calling getCart()
\* read at each of them).
World == [slot |-> slot, pending |-> pending, badge |-> badge,
          threw |-> FALSE, emits |-> 0, heard |-> << >>]

\* The storage as a call may find it: getItem or setItem may throw.
Envs == [readThrows : BOOLEAN, writeThrows : BOOLEAN]
Healthy == [readThrows |-> FALSE, writeThrows |-> FALSE]

\* useState of CarrinhoPage before its mount effect has run.
PageClosed ==
    [hydrated |-> FALSE, items |-> << >>, city |-> "", bairro |-> "",
     numeroCasa |-> "", referencia |-> "", periodo |-> ""]

\* Before fetchCatalogProducts has been called.
NotFetched == [called |-> FALSE]

\* Before CatalogoPage is rendered.
CatalogClosed == [open |-> FALSE]

\* Before a route is entered.
NoRoute == [entered |-> FALSE]

\* Before ProdutoClient is rendered.
DetailClosed == [open |-> FALSE]

\* No call of the store is under way: within a context a call runs to its end,
\* and between contexts a call is one step unless a specification splits it.
NoCalls == [c \in Contexts |-> [op |-> "none"]]

\* ---------------------------------------------------------- useCartCount
RECURSIVE SumQty(_)
SumQty(items) ==
    IF items = << >> THEN 0
    ELSE LET i == Head(items)
         IN  (IF "qty" \in DOMAIN i THEN i.qty ELSE 0) + SumQty(Tail(items))

\* safeCount(): the sum of the quantities getCart() returns.
safeCountOf(raw, readThrows) == SumQty(getCartOf(raw, readThrows))

\* s.includes(sub)
Includes(s, sub) ==
    \E n \in 1..(Len(s) - Len(sub) + 1) : SubSeq(s, n, n + Len(sub) - 1) = sub

\* A variant of onStorage that tests the key against the event name.
onStorage_WrongKey(b, e, raw, readThrows) ==
    IF Get(e, "key") = Undefined THEN b
    ELSE IF Includes(e.key, CART_EVENT) THEN [b EXCEPT !.count = safeCountOf(raw, readThrows)]
    ELSE b

\* onStorage(e): the subscriber's storage listener.
onStorage(b, e, raw, readThrows) ==
    IF Get(e, "key") = Undefined THEN b
    ELSE IF Includes(e.key, STORAGE_KEY) THEN [b EXCEPT !.count = safeCountOf(raw, readThrows)]
    ELSE b

\* ------------------------------------------------- cart.ts, the side effects
\* A variant of setItem that writes the new elements after the stored ones.
setItem_Append(w, c, text) ==
    [w EXCEPT !.slot = IF w.slot.kind = "json" /\ IsArray(w.slot.value)
                       THEN [text EXCEPT !.value.elems = w.slot.value.elems \o @]
                       ELSE text]

\* localStorage.setItem(STORAGE_KEY, text) in context c: the other open contexts
\* get a storage event when the stored value changes.
setItem(w, c, text) ==
    [w EXCEPT !.slot = text,
              !.pending = [d \in Contexts |->
                              IF d # c /\ d \in tabs /\ text # w.slot
                              THEN Append(w.pending[d], StorageEvent)
                              ELSE w.pending[d]]]

\* emitCartChanged(): dispatchEvent runs the context's CART_EVENT listeners
\* before it returns; the mounted subscriber's onCartChanged is one of them.
emitCartChanged(w, c, env) ==
    [w EXCEPT !.emits = @ + 1,
              !.heard = Append(@, getCartOf(w.slot, env.readThrows)),
              !.badge[c] = IF @.mounted
                           THEN [@ EXCEPT !.count = safeCountOf(w.slot, env.readThrows)]
                           ELSE @]

\* A variant of setCart that dispatches the event before it writes.
setCart_EmitFirst(w, c, items, env) ==
    IF env.writeThrows THEN [emitCartChanged(w, c, env) EXCEPT !.threw = TRUE]
    ELSE setItem(emitCartChanged(w, c, env), c, JSONstringify(items))

\* setCart(items): setItem, then emitCartChanged; a setItem that throws is not caught.
setCart(w, c, items, env) ==
    IF env.writeThrows THEN [w EXCEPT !.threw = TRUE]
    ELSE emitCartChanged(setItem(w, c, JSONstringify(items)), c, env)

\* ----------------------------------------------------------------- actions
\* The record of a step that is no call of the store.
NoCall(op, c) ==
    [op |-> op, ctx |-> c, arg |-> << >>, env |-> Healthy, slot0 |-> slot,
     before |-> << >>, threw |-> FALSE, emits |-> 0, heard |-> << >>, ret |-> << >>]

\* No view is open and nothing has been fetched.
ViewsIdle ==
    /\ cartPage = [c \in Contexts |-> PageClosed]
    /\ fetched = NotFetched
    /\ browse = CatalogClosed
    /\ route = NoRoute
    /\ detail = DetailClosed

Init ==
    /\ slot = NullSlot
    /\ tabs = {1}
    /\ calls = NoCalls
    /\ pending = [c \in Contexts |-> << >>]
    /\ badge = [c \in Contexts |-> Unmounted]
    /\ last = NoCall("init", 0)
    /\ ViewsIdle

\* The state a call leaves, and the record of the call: its argument, the storage
\* it met (env, slot0), the list getCart() gave when it began (before), and what
\* it did (threw, emits, heard) and returned (ret).
Effects(w, op, c, arg, env, ret) ==
    /\ slot' = w.slot
    /\ pending' = w.pending
    /\ badge' = w.badge
    /\ last' = [op |-> op, ctx |-> c, arg |-> arg, env |-> env, slot0 |-> slot,
                before |-> getCartOf(slot, env.readThrows),
                threw |-> w.threw, emits |-> w.emits, heard |-> w.heard, ret |-> ret]
    /\ UNCHANGED <<tabs, calls>>

\* A call of the store made by a caller that is none of the views.
Commit(w, op, c, arg, env, ret) ==
    /\ Effects(w, op, c, arg, env, ret)
    /\ UNCHANGED views

\* Model bounds: the quantities stay within MaxStored and the queues within
\* MaxPending.
Bounded(c, items) ==
    /\ \A n \in 1..Len(items) : items[n].qty <= MaxStored
    /\ \A d \in tabs \ {c} : Len(pending[d]) < MaxPending

GetCart(c, env) ==
    /\ c \in tabs
    /\ Commit(World, "get", c, << >>, env, getCartOf(slot, env.readThrows))

AddToCart(c, input, env) ==
    /\ c \in tabs
    /\ LET items == getCartOf(slot, env.readThrows)
           next == addToCartList(items, input)
       IN  /\ Bounded(c, next)
           /\ Commit(setCart(World, c, next, env), "add", c, input, env, << >>)

UpdateCartItem(c, params, env) ==
    /\ c \in tabs
    /\ LET items == getCartOf(slot, env.readThrows)
           next == updateCartItemList(items, params)
       IN  /\ Bounded(c, next)
           /\ Commit(setCart(World, c, next, env), "update", c, params, env, << >>)

RemoveCartItem(c, params, env) ==
    /\ c \in tabs
    /\ LET items == getCartOf(slot, env.readThrows)
           next == removeCartItemList(items, params)
       IN  /\ Bounded(c, next)
           /\ Commit(setCart(World, c, next, env), "remove", c, params, env, << >>)

ClearCart(c, env) ==
    /\ c \in tabs
    /\ Bounded(c, << >>)
    /\ Commit(setCart(World, c, << >>, env), "clear", c, << >>, env, << >>)

\* useCartCount's effect on mount: setCount(safeCount()), then the two listeners
\* are added.
Mount(c) ==
    /\ c \in tabs
    /\ ~badge[c].mounted
    /\ badge' = [badge EXCEPT ![c] = [mounted |-> TRUE, count |-> safeCountOf(slot, FALSE)]]
    /\ last' = NoCall("mount", c)
    /\ UNCHANGED <<slot, tabs, calls, pending>>
    /\ UNCHANGED views

\* The effect's cleanup: both listeners are removed, the component's state is gone.
Unmount(c) ==
    /\ c \in tabs
    /\ badge[c].mounted
    /\ badge' = [badge EXCEPT ![c] = Unmounted]
    /\ last' = NoCall("unmount", c)
    /\ UNCHANGED <<slot, tabs, calls, pending>>
    /\ UNCHANGED views

\* The context's event loop dispatches its oldest storage event; onStorage runs
\* when the subscriber is mounted.
DeliverStorage(c) ==
    /\ c \in tabs
    /\ pending[c] # << >>
    /\ pending' = [pending EXCEPT ![c] = Tail(@)]
    /\ badge' = [badge EXCEPT ![c] =
                    IF @.mounted THEN onStorage(@, Head(pending[c]), slot, FALSE) ELSE @]
    /\ last' = NoCall("deliver", c)
    /\ UNCHANGED <<slot, tabs, calls>>
    /\ UNCHANGED views

\* --------------------------------------------------------------- the inputs
NameOf(sku) == IF sku = "A" THEN "Whey" ELSE "Creatina"

\* photo: p.images?.[0], which is undefined for a product without images.
PhotoOf(sku) == IF sku = "A" THEN "/a.png" ELSE Undefined

\* The variant labels a product is added with; Undefined: without the property.
VariantsOf(sku) == IF sku = "A" THEN {"250g", Undefined} ELSE {Undefined}

WithVariant(obj, vl) == IF vl = Undefined THEN obj ELSE Spread(obj, "variantLabel", vl)

CartItemOf(sku, vl, q) ==
    WithVariant([sku |-> sku, name |-> NameOf(sku), photo |-> PhotoOf(sku), qty |-> q], vl)

ReqQtys == -1..MaxReq
NewQtys == -1..MaxStored

\* The (sku, variantLabel) pairs the callers address.
Identities == UNION {{<<s, vl>> : vl \in VariantsOf(s)} : s \in Skus}

AddInputs(ids) == {CartItemOf(id[1], id[2], q) : id \in ids, q \in ReqQtys}
UpdateInputs(ids) == {WithVariant([sku |-> id[1], qty |-> q], id[2]) : id \in ids, q \in NewQtys}
RemoveInputs(ids) == {WithVariant([sku |-> id[1]], id[2]) : id \in ids}

\* A call of the store from context c, addressing the identities ids, the storage
\* as one of envs.
StoreCall(c, ids, envs) ==
    \E env \in envs :
        \/ GetCart(c, env)
        \/ \E input \in AddInputs(ids) : AddToCart(c, input, env)
        \/ \E params \in UpdateInputs(ids) : UpdateCartItem(c, params, env)
        \/ \E params \in RemoveInputs(ids) : RemoveCartItem(c, params, env)
        \/ ClearCart(c, env)

\* ------------------------------------------------------- the specifications
\* One tab using the store, the storage working.
Next == \E c \in Contexts : StoreCall(c, Identities, {Healthy})

Spec == Init /\ [][Next]_vars

\* Two tabs sharing the storage, each with a quantity badge; the slot holds a
\* line of product B from an earlier visit.
InitSync ==
    /\ slot = JSONstringify(<<CartItemOf("B", Undefined, 1)>>)
    /\ tabs = Contexts
    /\ calls = NoCalls
    /\ pending = [c \in Contexts |-> << >>]
    /\ badge = [c \in Contexts |-> Unmounted]
    /\ last = NoCall("init", 0)
    /\ ViewsIdle

NextSync ==
    \E c \in Contexts :
        \/ StoreCall(c, {<<"A", "250g">>}, {Healthy})
        \/ Mount(c)
        \/ Unmount(c)
        \/ DeliverStorage(c)

SpecSync == InitSync /\ [][NextSync]_vars

\* What the slot may hold when the page loads: nothing, the empty text, text that
\* is not JSON, JSON that is no array, or an array left by an earlier session.
StoredLists ==
    { << >>,
      <<CartItemOf("A", "250g", 2)>>,
      <<CartItemOf("A", "250g", 1), CartItemOf("A", "250g", 2)>> }

InitialSlots ==
    {NullSlot, [kind |-> "empty"], [kind |-> "bad"],
     [kind |-> "json", value |-> [t |-> "obj"]],
     [kind |-> "json", value |-> [t |-> "null"]]}
    \cup {JSONstringify(l) : l \in StoredLists}

\* One tab, the storage failing at will.
InitFault ==
    /\ slot \in InitialSlots
    /\ tabs = {1}
    /\ calls = NoCalls
    /\ pending = [c \in Contexts |-> << >>]
    /\ badge = [c \in Contexts |-> Unmounted]
    /\ last = NoCall("init", 0)
    /\ ViewsIdle

NextFault == \E c \in Contexts : StoreCall(c, {<<"A", "250g">>, <<"A", Undefined>>}, Envs)

SpecFault == InitFault /\ [][NextFault]_vars

\* The (sku, variantLabel) pairs of callers that hold a sku or a label with "::"
\* in it, and the label "default" beside the missing label.
KeyIdentities ==
    {<<"A", Undefined>>, <<"A", "default">>, <<"A::B", "C">>, <<"A", "B::C">>}

\* One tab using the store with those pairs.
NextKeys == \E c \in Contexts : StoreCall(c, KeyIdentities, {Healthy})

SpecKeys == Init /\ [][NextKeys]_vars

\* -------------------------------------------- cart.ts, two contexts at once
\* Within a context a call of the store runs to its end.  Two contexts are two
\* event loops over one storage area, and nothing orders the getItem of one
\* against the setItem of the other: a call is here two steps, its getCart()
\* and its setCart(), and the other context may act in between.

\* The list a call hands to setCart, from the list its getCart() returned.
nextListOf(op, items, arg) ==
    CASE op = "add" -> addToCartList(items, arg)
      [] op = "update" -> updateCartItemList(items, arg)
      [] op = "remove" -> removeCartItemList(items, arg)

\* getCart() of addToCart, updateCartItem or removeCartItem in context c.
BeginCall(c, op, arg) ==
    /\ c \in tabs
    /\ calls[c].op = "none"
    /\ calls' = [calls EXCEPT ![c] = [op |-> op, arg |-> arg, items |-> getCartOf(slot, FALSE)]]
    /\ last' = [NoCall("getCart", c) EXCEPT !.arg = arg]
    /\ UNCHANGED <<slot, tabs, pending, badge>>
    /\ UNCHANGED views

\* The rest of the call: the new list is made from the list read, and setCart()
\* stores it.
EndCall(c) ==
    /\ c \in tabs
    /\ calls[c].op # "none"
    /\ LET next == nextListOf(calls[c].op, calls[c].items, calls[c].arg)
           w == setCart(World, c, next, Healthy)
       IN  /\ Bounded(c, next)
           /\ \A n \in 1..Len(next) : next[n].qty <= MaxRaceQty
           /\ slot' = w.slot
           /\ pending' = w.pending
           /\ badge' = w.badge
           /\ last' = [op |-> calls[c].op, ctx |-> c, arg |-> calls[c].arg, env |-> Healthy,
                       slot0 |-> slot, before |-> calls[c].items,
                       threw |-> w.threw, emits |-> w.emits, heard |-> w.heard, ret |-> << >>]
    /\ calls' = [calls EXCEPT ![c] = [op |-> "none"]]
    /\ UNCHANGED tabs
    /\ UNCHANGED views

\* What the two contexts call the store with.
RaceIdentities == {<<"A", "250g">>, <<"B", Undefined>>}
RaceAdds == {CartItemOf(id[1], id[2], 1) : id \in RaceIdentities}
RaceUpdates == {WithVariant([sku |-> "A", qty |-> q], "250g") : q \in {0, 2}}

\* Two tabs using the store.
InitRace ==
    /\ slot = NullSlot
    /\ tabs = Contexts
    /\ calls = NoCalls
    /\ pending = [c \in Contexts |-> << >>]
    /\ badge = [c \in Contexts |-> Unmounted]
    /\ last = NoCall("init", 0)
    /\ ViewsIdle

NextRace ==
    \E c \in Contexts :
        \/ \E input \in RaceAdds : BeginCall(c, "add", input)
        \/ \E params \in RaceUpdates : BeginCall(c, "update", params)
        \/ \E params \in RemoveInputs({<<"B", Undefined>>}) : BeginCall(c, "remove", params)
        \/ EndCall(c)
        \/ calls[c].op = "none" /\ ClearCart(c, Healthy)
        \/ DeliverStorage(c)

SpecRace == InitRace /\ [][NextRace]_vars

\* ------------------------------------------------- carrinho/page.tsx, the page
\* "Padrao" with a-tilde, the label shown for a line without a variant label.
PADRAO == "Padr\\u00e3o"

\* getQty(i): qty, or the quantity of a cart of the older shape, floored at 0
\* (the quantities of the model are integers: Number and Math.floor keep them).
getQty(i) ==
    Max(0, IF "qty" \in DOMAIN i THEN i.qty
           ELSE IF "quantity" \in DOMAIN i THEN i.quantity
           ELSE 0)

getSku(i) == Coalesce(Get(i, "sku"), Coalesce(Get(i, "productSlug"), ""))

getName(i) == Coalesce(Get(i, "name"), Coalesce(Get(i, "productName"), "Produto"))

getVariantLabel(i) == Coalesce(Get(i, "variantLabel"), Coalesce(Get(i, "variantId"), PADRAO))

\* The identity the page's buttons hand to the store for the line i.
PageIdentity(i) == [sku |-> getSku(i), variantLabel |-> getVariantLabel(i)]

\* sync(): setItems(getCart()), reading the storage as the call w has left it.
sync(w, c) == [cartPage EXCEPT ![c].items = getCartOf(w.slot, FALSE)]

\* A handler of the page in context c: the call of the store, then sync().
PageCall(c, op, arg, next) ==
    /\ Bounded(c, next)
    /\ LET w == setCart(World, c, next, Healthy)
       IN  /\ Effects(w, op, c, arg, Healthy, << >>)
           /\ cartPage' = sync(w, c)
    /\ UNCHANGED <<fetched, browse, route, detail>>

\* The mount effect: setHydrated(true); setItems(getCart()).  No listener is added.
PageMount(c) ==
    /\ c \in tabs
    /\ ~cartPage[c].hydrated
    /\ cartPage' = [cartPage EXCEPT ![c].hydrated = TRUE,
                                    ![c].items = getCartOf(slot, FALSE)]
    /\ last' = NoCall("pageMount", c)
    /\ UNCHANGED <<slot, tabs, calls, pending, badge, fetched, browse, route, detail>>

\* The page is left: its state is gone.
PageClose(c) ==
    /\ c \in tabs
    /\ cartPage[c].hydrated
    /\ cartPage' = [cartPage EXCEPT ![c] = PageClosed]
    /\ last' = NoCall("pageClose", c)
    /\ UNCHANGED <<slot, tabs, calls, pending, badge, fetched, browse, route, detail>>

\* inc(i), i the n-th line shown.
inc(c, n) ==
    /\ c \in tabs /\ cartPage[c].hydrated
    /\ n \in 1..Len(cartPage[c].items)
    /\ LET i == cartPage[c].items[n]
           params == Spread(PageIdentity(i), "qty", getQty(i) + 1)
       IN  PageCall(c, "inc", params, updateCartItemList(getCartOf(slot, FALSE), params))

\* dec(i)
dec(c, n) ==
    /\ c \in tabs /\ cartPage[c].hydrated
    /\ n \in 1..Len(cartPage[c].items)
    /\ LET i == cartPage[c].items[n]
           params == Spread(PageIdentity(i), "qty", Max(1, getQty(i) - 1))
       IN  PageCall(c, "dec", params, updateCartItemList(getCartOf(slot, FALSE), params))

\* removeItem(i)
removeItem(c, n) ==
    /\ c \in tabs /\ cartPage[c].hydrated
    /\ n \in 1..Len(cartPage[c].items)
    /\ LET params == PageIdentity(cartPage[c].items[n])
       IN  PageCall(c, "removeItem", params, removeCartItemList(getCartOf(slot, FALSE), params))

\* handleClear()
handleClear(c) ==
    /\ c \in tabs /\ cartPage[c].hydrated
    /\ PageCall(c, "handleClear", << >>, << >>)

\* Two tabs sharing the storage.  Tab 1 shows the cart page or, while that is
\* closed, another page of the shop; tab 2 shows the other pages, which are the
\* ones that call the store directly.  The slot holds a line of product B, which
\* has no variant label, from an earlier visit.
InitPage ==
    /\ slot = JSONstringify(<<CartItemOf("B", Undefined, 1)>>)
    /\ tabs = Contexts
    /\ calls = NoCalls
    /\ pending = [c \in Contexts |-> << >>]
    /\ badge = [c \in Contexts |-> Unmounted]
    /\ last = NoCall("init", 0)
    /\ ViewsIdle

NextPage ==
    \/ \E c \in Contexts :
          \/ ~cartPage[c].hydrated /\ StoreCall(c, {<<"A", "250g">>}, {Healthy})
          \/ DeliverStorage(c)
    \/ PageMount(1)
    \/ PageClose(1)
    \/ \E n \in 1..MaxLines : inc(1, n) \/ dec(1, n) \/ removeItem(1, n)
    \/ handleClear(1)

SpecPage == InitPage /\ [][NextPage]_vars

\* ------------------------------------------------------------------- texts
\* A text that a function reads character by character is the sequence of its
\* characters; a character outside ASCII is written as its escape ("\\u00e7").
Chars(s) == [n \in 1..Len(s) |-> SubSeq(s, n, n)]

\* The value null of a nullable text column.
Null == <<"\\null">>

UpperCase == Chars("ABCDEFGHIJKLMNOPQRSTUVWXYZ")
LowerCase == Chars("abcdefghijklmnopqrstuvwxyz")
Digits == Chars("0123456789")

Range(f) == {f[x] : x \in DOMAIN f}

\* The characters String.prototype.trim removes (of those the texts may hold).
WhiteSpace == {" ", "\t", "\n", "\\x0b", "\\x0c", "\\x0d", "\\u00a0"}

\* The combining marks of the texts (acute, cedilla), both within U+0300..U+036F.
CombiningMarks == {"\\u0301", "\\u0327"}

\* The canonical decomposition of a character (i-acute, c-cedilla; the other
\* characters of the texts have none).
Decompose(ch) ==
    IF ch = "\\u00ed" THEN <<"i", "\\u0301">>
    ELSE IF ch = "\\u00e7" THEN <<"c", "\\u0327">>
    ELSE IF ch = "\\u00cd" THEN <<"I", "\\u0301">>
    ELSE IF ch = "\\u00c7" THEN <<"C", "\\u0327">>
    ELSE <<ch>>

\* The concatenation of the texts of parts, in their order.
RECURSIVE Flatten(_)
Flatten(parts) ==
    IF Len(parts) = 0 THEN << >>
    ELSE IF Len(parts) = 1 THEN parts[1]
    ELSE LET half == Len(parts) \div 2
         IN  Flatten(SubSeq(parts, 1, half)) \o Flatten(SubSeq(parts, half + 1, Len(parts)))

\* s.normalize("NFD")
NFD(s) == Flatten([n \in 1..Len(s) |-> Decompose(s[n])])

toLowerCaseChar(ch) ==
    IF ch \in Range(UpperCase)
    THEN LowerCase[CHOOSE n \in DOMAIN UpperCase : UpperCase[n] = ch]
    ELSE IF ch = "\\u00cd" THEN "\\u00ed"
    ELSE IF ch = "\\u00c7" THEN "\\u00e7"
    ELSE ch

\* s.toLowerCase()
toLowerCase(s) == [n \in 1..Len(s) |-> toLowerCaseChar(s[n])]

\* s without its leading and trailing characters of the set cs.
StripEnds(s, cs) ==
    LET keep == {n \in 1..Len(s) : s[n] \notin cs}
    IN  IF keep = {} THEN << >>
        ELSE SubSeq(s, CHOOSE n \in keep : \A m \in keep : n <= m,
                       CHOOSE n \in keep : \A m \in keep : n >= m)

\* s.trim()
trim(s) == StripEnds(s, WhiteSpace)

\* [a-z0-9]
IsSlugChar(ch) == ch \in Range(LowerCase) \cup Range(Digits)

\* s.replace(/[^a-z0-9]+/g, "-"): every run of other characters becomes one "-".
ReplaceRuns(s) ==
    Flatten([n \in 1..Len(s) |->
                IF IsSlugChar(s[n]) THEN <<s[n]>>
                ELSE IF n = 1 \/ IsSlugChar(s[n - 1]) THEN <<"-">>
                ELSE << >>])

\* ------------------------------------------------------------ db/products.ts
\* slugify(name)
slugify(name) ==
    StripEnds(ReplaceRuns(trim(toLowerCase(
                  SelectSeq(NFD(name), LAMBDA ch : ch \notin CombiningMarks)))),
              {"-"})

\* normalizeCategory(input): a value that is no string gives "".
normalizeCategory(input) == IF input = Null THEN << >> ELSE trim(input)

\* a ?? b, for texts
OrElse(a, b) == IF a = Null THEN b ELSE a

\* a || b, for texts: null and "" are falsy.
Falsy(a) == a = Null \/ a = << >>

PLACEHOLDER == Chars("/placeholder.png")

\* A variant of the index that puts each row in front of its group.
bySku_Unshift(variants, sku) ==
    LET group == SelectSeq(variants, LAMBDA v : v.product_sku = sku)
    IN  [n \in 1..Len(group) |-> group[Len(group) + 1 - n]]

\* bySku.get(sku) ?? []: the rows of product_sku = sku, in the order of variants.
bySku(variants, sku) == SelectSeq(variants, LAMBDA v : v.product_sku = sku)

\* A variant of mappedVariants without the synthetic variant.
mappedVariants_NoDefault(v) ==
    [n \in 1..Len(v) |-> [id |-> v[n].id, label |-> v[n].label, status |-> "ENCOMENDA"]]

\* mappedVariants: the group mapped row by row, or the one synthetic variant.
mappedVariants(v) ==
    IF Len(v) > 0
    THEN [n \in 1..Len(v) |-> [id |-> v[n].id, label |-> v[n].label, status |-> "ENCOMENDA"]]
    ELSE <<[id |-> "default", label |-> PADRAO, status |-> "ENCOMENDA"]>>

\* The map step for the raw product p.
toCatalogProduct(p, variants) ==
    LET v == bySku(variants, p.sku)
        safeName == OrElse(p.name, << >>)
        safeDescription == OrElse(p.description, << >>)
        slug == IF Falsy(slugify(safeName)) THEN p.sku ELSE slugify(safeName)
        imageUrl == IF Falsy(p.photo_url) THEN PLACEHOLDER ELSE p.photo_url
    IN  [id |-> p.sku, slug |-> slug, name |-> safeName, description |-> safeDescription,
         images |-> <<imageUrl>>, status |-> "ENCOMENDA",
         category |-> normalizeCategory(p.category), variants |-> mappedVariants(v)]

\* fetchCatalogProducts(), db being what the two queries give: the rows of
\* products ordered by name, the rows of product_variants ordered by sort_order,
\* and the query that fails, if one does.
fetchCatalogProductsOf(db) ==
    IF db.error = "products" THEN [ok |-> FALSE, message |-> "pErr"]
    ELSE IF Len(db.products) = 0 THEN [ok |-> TRUE, products |-> << >>]
    ELSE IF db.error = "variants" THEN [ok |-> FALSE, message |-> "vErr"]
    ELSE [ok |-> TRUE,
          products |-> [k \in 1..Len(db.products) |->
                           toCatalogProduct(db.products[k], db.variants)]]

\* The rows of the table products, as the products query orders them (by name,
\* null last): an empty name, a name of symbols only, a name with accents, upper
\* case and a run of spaces, a plain name, a null name.
ProductRows ==
    << [sku |-> Chars("C3"), name |-> << >>, description |-> << >>,
        photo_url |-> << >>, category |-> << >>],
       [sku |-> Chars("B 2"), name |-> Chars("***"), description |-> Null,
        photo_url |-> Null, category |-> Null],
       [sku |-> Chars("A1"), name |-> <<"A", "\\u00e7", "a", "\\u00ed">> \o Chars("  Mix!"),
        description |-> Chars("Polpa"), photo_url |-> Chars("/img/a.png"),
        category |-> Chars(" Mix ")],
       [sku |-> Chars("E5"), name |-> Chars("Whey 2kg"), description |-> Chars("Po"),
        photo_url |-> Chars(" /img/e.png "), category |-> Chars("Graos")],
       [sku |-> Chars("D4"), name |-> Null, description |-> Chars("Po"),
        photo_url |-> Chars("  "), category |-> Chars("Mix")] >>

\* The rows of the table product_variants; ZZ is the sku of no product.
VariantRows ==
    { [id |-> "v1", product_sku |-> Chars("A1"), label |-> "1kg", sort_order |-> 2],
      [id |-> "v2", product_sku |-> Chars("A1"), label |-> "250g", sort_order |-> 1],
      [id |-> "v3", product_sku |-> Chars("E5"), label |-> "2kg", sort_order |-> 1],
      [id |-> "v4", product_sku |-> Chars("ZZ"), label |-> "1un", sort_order |-> 1],
      [id |-> "v5", product_sku |-> Chars("A1"), label |-> "500g", sort_order |-> 2] }

\* The rows of the sequence rows at the positions in pick, in their order.
Pick(rows, pick) ==
    Flatten([n \in 1..Len(rows) |-> IF n \in pick THEN <<rows[n]>> ELSE << >>])

\* What .order("name") may give: some of the rows, at most MaxProducts, in order.
ProductResults ==
    {Pick(ProductRows, pick) :
        pick \in {q \in SUBSET (1..Len(ProductRows)) : Cardinality(q) <= MaxProducts}}

\* What .order("sort_order", { ascending: true }) may give: some of the rows, at
\* most MaxVariants, in an order of ascending sort_order (rows of equal
\* sort_order in either order).
VariantResults ==
    UNION {{vs \in [1..Cardinality(rows) -> rows] :
               /\ \A m, n \in DOMAIN vs : m < n => vs[m] # vs[n]
               /\ \A m, n \in DOMAIN vs : m < n => vs[m].sort_order <= vs[n].sort_order} :
           rows \in {q \in SUBSET VariantRows : Cardinality(q) <= MaxVariants}}

\* The loader has been called on db and has returned or thrown.
FetchCatalogProducts ==
    /\ ~fetched.called
    /\ fetched' = [fetched EXCEPT !.called = TRUE, !.result = fetchCatalogProductsOf(fetched.db)]
    /\ last' = NoCall("fetchCatalogProducts", 0)
    /\ UNCHANGED <<slot, tabs, calls, pending, badge, cartPage, browse, route, detail>>

\* The loader before its call, over every content of the two tables and every
\* outcome of the queries.
InitFetch ==
    /\ slot = NullSlot
    /\ tabs = {1}
    /\ calls = NoCalls
    /\ pending = [c \in Contexts |-> << >>]
    /\ badge = [c \in Contexts |-> Unmounted]
    /\ last = NoCall("init", 0)
    /\ cartPage = [c \in Contexts |-> PageClosed]
    /\ browse = CatalogClosed
    /\ route = NoRoute
    /\ detail = DetailClosed
    /\ \E ps \in ProductResults, vs \in VariantResults, e \in {"none", "products", "variants"} :
           fetched = [called |-> FALSE,
                      db |-> [products |-> ps, variants |-> vs, error |-> e],
                      result |-> [ok |-> FALSE, message |-> "pending"]]

NextFetch == FetchCatalogProducts

SpecFetch == InitFetch /\ [][NextFetch]_vars

\* ------------------------------------------------ catalogo/page.tsx, helpers
\* input.split(ch)[0]: the text before the first ch.
SplitFirst(s, ch) ==
    LET at == {n \in 1..Len(s) : s[n] = ch}
    IN  IF at = {} THEN s ELSE SubSeq(s, 1, (CHOOSE n \in at : \A m \in at : n <= m) - 1)

HexDigits == Chars("0123456789abcdef")

\* The value of a hexadecimal digit; -1 for another character.
HexVal(ch) ==
    LET at == {n \in DOMAIN HexDigits : HexDigits[n] = toLowerCaseChar(ch)}
    IN  IF at = {} THEN -1 ELSE (CHOOSE n \in at : TRUE) - 1

\* The byte the escape "%XY" at position n of s stands for; -1 when there is none.
ByteAt(s, n) ==
    IF n + 2 <= Len(s) /\ s[n] = "%" /\ HexVal(s[n + 1]) >= 0 /\ HexVal(s[n + 2]) >= 0
    THEN 16 * HexVal(s[n + 1]) + HexVal(s[n + 2])
    ELSE -1

\* The ASCII characters from the space (32) to the tilde (126); the grave accent
\* (96) is written as its escape.
Printable ==
    Chars(" !\"#$%&'()*+,-./0123456789:;<=>?@ABCDEFGHIJKLMNOPQRSTUVWXYZ[\\]^_")
        \o <<"\\x60">> \o Chars("abcdefghijklmnopqrstuvwxyz{|}~")

Hex(n) == HexDigits[n + 1]

\* The character of code point cp.
CodePoint(cp) ==
    IF cp \in 32..126 THEN Printable[cp - 31]
    ELSE IF cp = 9 THEN "\t"
    ELSE IF cp = 10 THEN "\n"
    ELSE IF cp < 128 THEN "\\x" \o Hex(cp \div 16) \o Hex(cp % 16)
    ELSE IF cp < 65536
    THEN "\\u" \o Hex(cp \div 4096) \o Hex((cp \div 256) % 16) \o Hex((cp \div 16) % 16) \o Hex(cp % 16)
    ELSE "\\u{" \o Hex(cp \div 1048576) \o Hex((cp \div 65536) % 16) \o Hex((cp \div 4096) % 16)
               \o Hex((cp \div 256) % 16) \o Hex((cp \div 16) % 16) \o Hex(cp % 16) \o "}"

\* decodeURIComponent(s): [ok |-> TRUE, value |-> the decoded text], or
\* [ok |-> FALSE] when it throws URIError: a "%" that does not begin an escape, or
\* escapes that are not the UTF-8 encoding of a character.
RECURSIVE decodeURIComponent(_)
decodeURIComponent(s) ==
    IF s = << >> THEN [ok |-> TRUE, value |-> << >>]
    ELSE IF Head(s) # "%"
    THEN LET rest == decodeURIComponent(Tail(s))
         IN  IF rest.ok THEN [ok |-> TRUE, value |-> <<Head(s)>> \o rest.value] ELSE rest
    ELSE LET b == ByteAt(s, 1)
             more == IF b < 128 THEN 0
                     ELSE IF b \in 194..223 THEN 1
                     ELSE IF b \in 224..239 THEN 2
                     ELSE IF b \in 240..244 THEN 3
                     ELSE -1
             cont == [k \in 1..more |-> ByteAt(s, 1 + 3 * k)]
             cp == IF more = 0 THEN b
                   ELSE IF more = 1 THEN (b - 192) * 64 + (cont[1] - 128)
                   ELSE IF more = 2
                   THEN (b - 224) * 4096 + (cont[1] - 128) * 64 + (cont[2] - 128)
                   ELSE (b - 240) * 262144 + (cont[1] - 128) * 4096
                            + (cont[2] - 128) * 64 + (cont[3] - 128)
             wellFormed ==
                 /\ \A k \in 1..more : cont[k] \in 128..191
                 /\ more = 2 => (cp >= 2048 /\ cp \notin 55296..57343)
                 /\ more = 3 => cp \in 65536..1114111
         IN  IF b < 0 \/ more < 0 THEN [ok |-> FALSE]
             ELSE IF ~wellFormed THEN [ok |-> FALSE]
             ELSE LET rest == decodeURIComponent(SubSeq(s, 4 + 3 * more, Len(s)))
                  IN  IF rest.ok THEN [ok |-> TRUE, value |-> <<CodePoint(cp)>> \o rest.value]
                      ELSE rest

\* normalizeText(input): a value that is no string gives "".
normalizeText(input) == IF input = Null THEN << >> ELSE toLowerCase(trim(input))

\* A variant of normalizeSlug that lowercases before it decodes.
normalizeSlug_LowerFirst(input) ==
    IF input = Null THEN << >>
    ELSE LET noQuery == SplitFirst(SplitFirst(input, "?"), "#")
             decoded == decodeURIComponent(toLowerCase(noQuery))
         IN  IF decoded.ok THEN trim(decoded.value)
             ELSE toLowerCase(trim(noQuery))

\* normalizeSlug(input): a value that is no string gives ""; the catch branch
\* serves the input that decodeURIComponent throws on.
normalizeSlug(input) ==
    IF input = Null THEN << >>
    ELSE LET noQuery == SplitFirst(SplitFirst(input, "?"), "#")
             decoded == decodeURIComponent(noQuery)
         IN  IF decoded.ok THEN toLowerCase(trim(decoded.value))
             ELSE toLowerCase(trim(noQuery))

\* Pieces of the slugs a route is entered with: escapes of "%", "A", "?", "#"
\* and the space, a query, a fragment, a space, letters, digits, a lone "%", and
\* the two escapes of the UTF-8 encoding of C-cedilla.
SlugPieces ==
    { "%25", "41", "%41", "%3f", "%23", "%20", "?b", "#c", " ", "A", "a-1", "%", "%C3", "%87" }

RECURSIVE SlugInputs(_)
SlugInputs(n) ==
    IF n = 0 THEN {<< >>}
    ELSE SlugInputs(n - 1) \cup {x \o Chars(pc) : x \in SlugInputs(n - 1), pc \in SlugPieces}

\* A route is entered: the page normalizes the slug it was given.
EnterRoute ==
    /\ ~route.entered
    /\ route' = [route EXCEPT !.entered = TRUE, !.slug = normalizeSlug(route.raw)]
    /\ last' = NoCall("normalizeSlug", 0)
    /\ UNCHANGED <<slot, tabs, calls, pending, badge, cartPage, fetched, browse, detail>>

\* normalizeSlug before its call, over the inputs of at most MaxPieces pieces
\* and the input that is no string.
InitRoute ==
    /\ slot = NullSlot
    /\ tabs = {1}
    /\ calls = NoCalls
    /\ pending = [c \in Contexts |-> << >>]
    /\ badge = [c \in Contexts |-> Unmounted]
    /\ last = NoCall("init", 0)
    /\ cartPage = [c \in Contexts |-> PageClosed]
    /\ fetched = NotFetched
    /\ browse = CatalogClosed
    /\ detail = DetailClosed
    /\ \E x \in SlugInputs(MaxPieces) \cup {Null} :
           route = [entered |-> FALSE, raw |-> x, slug |-> << >>]

NextRoute == EnterRoute

SpecRoute == InitRoute /\ [][NextRoute]_vars

\* ------------------------------------------------- catalogo/page.tsx, the page
PAGE_SIZE == 9

Min(a, b) == IF a <= b THEN a ELSE b

\* clamp(n, min, max)
\* A variant of clamp without the lower bound.
clamp_NoFloor(n, lo, hi) == Min(n, hi)

clamp(n, lo, hi) == Min(Max(n, lo), hi)

\* The value "TODAS" of the category filter.
TODAS == Chars("TODAS")

\* categories: "TODAS", then the trimmed categories of the items that are not
\* empty, each once, in the order of their first item.
categoriesOf(items) ==
    LET cats == [k \in 1..Len(items) |-> trim(items[k].category)]
        first == {k \in 1..Len(items) :
                     cats[k] # << >> /\ \A j \in 1..(k - 1) : cats[j] # cats[k]}
    IN  <<TODAS>> \o Pick(cats, first)

\* A variant of filteredOf that shows a product matching either filter.
filteredOf_Either(items, q, category) ==
    LET query == normalizeText(q)
        Shown(p) ==
            LET matchesText == \/ query = << >>
                               \/ Includes(normalizeText(p.name), query)
                               \/ Includes(normalizeText(p.description), query)
                matchesCategory == IF category = TODAS THEN TRUE ELSE p.category = category
            IN  matchesText \/ matchesCategory
    IN  SelectSeq(items, Shown)

\* filtered: items.filter(...), for the search text q and the selected category.
filteredOf(items, q, category) ==
    LET query == normalizeText(q)
        Shown(p) ==
            LET matchesText == \/ query = << >>
                               \/ Includes(normalizeText(p.name), query)
                               \/ Includes(normalizeText(p.description), query)
                matchesCategory == IF category = TODAS THEN TRUE ELSE p.category = category
            IN  matchesText /\ matchesCategory
    IN  SelectSeq(items, Shown)

\* A variant of totalPagesOf that rounds down.
totalPagesOf_Floor(n) == Max(1, n \div PAGE_SIZE)

\* totalPages: Math.max(1, Math.ceil(n / PAGE_SIZE)) for a list of n products.
totalPagesOf(n) == Max(1, (n + PAGE_SIZE - 1) \div PAGE_SIZE)

\* safePage
safePageOf(page, totalPages) == clamp(page, 1, totalPages)

\* list.slice(start, end), for 0 <= start <= end
slice(list, start, end) ==
    IF start >= Len(list) THEN << >> ELSE SubSeq(list, start + 1, Min(end, Len(list)))

\* pageItems
pageItemsOf(filtered, safePage) ==
    LET start == (safePage - 1) * PAGE_SIZE
    IN  slice(filtered, start, start + PAGE_SIZE)

\* A variant of resetToFirstPage that leaves the page as it is.
resetToFirstPage_Keep(page) == page

\* resetToFirstPage(): setPage(1)
resetToFirstPage(page) == 1

\* What the page renders from its state.
Filtered == filteredOf(browse.items, browse.q, browse.category)
TotalPages == totalPagesOf(Len(Filtered))
SafePage == safePageOf(browse.page, TotalPages)
PageItems == pageItemsOf(Filtered, SafePage)

\* The list and the controls are rendered, by the page that is still mounted,
\* once the load has ended without error.
Browsing == browse.open /\ browse.alive /\ ~browse.loading /\ Falsy(browse.loadError)

\* The k-th product of the catalog the backend serves.
CatalogProductAt(k) ==
    [id |-> Chars("P" \o ToString(k)), slug |-> Chars("p" \o ToString(k)),
     name |-> CASE k % 3 = 1 -> Chars("Mix de Castanhas")
                [] k % 3 = 2 -> Chars(" Whey ")
                [] OTHER -> Chars("XILITOL"),
     description |-> IF k % 2 = 0 THEN Chars("Castanha crua") ELSE << >>,
     images |-> <<PLACEHOLDER>>, status |-> "ENCOMENDA",
     category |-> CASE k % 4 \in {1, 2} -> Chars("Mix")
                    [] k % 4 = 3 -> Chars("Graos")
                    [] OTHER -> << >>,
     variants |-> mappedVariants(<< >>)]

\* What fetch("/api/products") resolves with: a response whose status is ok or
\* not, and the body that res.json() parses.
Answer(ok, body) == [ok |-> ok, body |-> body]

\* A body that is no JSON: res.json() throws an error of this message.
NotJson == [notJson |-> Chars("Unexpected token")]

\* GET of api/products/route.ts, for what fetchCatalogProducts returned or threw.
GET(result) ==
    IF result.ok THEN Answer(TRUE, [products |-> result.products])
    ELSE Answer(FALSE, [error |-> Chars(result.message)])

\* What GET /api/products answers: the products, or an error with status 500.
Responses ==
    {GET([ok |-> TRUE, products |-> [k \in 1..n |-> CatalogProductAt(k)]]) : n \in 0..MaxCatalog}
        \cup {GET([ok |-> FALSE, message |-> "Erro inesperado"])}

\* What run() of the load effect comes to after res.json(): the items to set, or
\* the message of the error it caught.
runOf(res) ==
    IF "notJson" \in DOMAIN res.body THEN [error |-> res.body.notJson]
    ELSE IF ~res.ok
    THEN [error |-> IF "error" \in DOMAIN res.body /\ ~Falsy(res.body.error)
                    THEN res.body.error
                    ELSE Chars("Falha ao carregar produtos.")]
    ELSE [items |-> IF "products" \in DOMAIN res.body THEN res.body.products ELSE << >>]

\* A variant of settle that does not look at alive.
settle_NoAliveCheck(v, out) ==
    IF "items" \in DOMAIN out
    THEN [v EXCEPT !.items = out.items, !.loading = FALSE, !.stage = "done"]
    ELSE [v EXCEPT !.loadError = out.error, !.loading = FALSE, !.stage = "done"]

\* The end of run() in the view v (CatalogoPage or ProdutoClient, whose load
\* effects are the same text): if (alive) setItems or setLoadError, then
\* if (alive) setLoading(false).
settle(v, out) ==
    IF ~v.alive THEN [v EXCEPT !.stage = "done"]
    ELSE IF "items" \in DOMAIN out
    THEN [v EXCEPT !.items = out.items, !.loading = FALSE, !.stage = "done"]
    ELSE [v EXCEPT !.loadError = out.error, !.loading = FALSE, !.stage = "done"]

\* The record of a step of a view's load: the response and the view before it.
LoadCall(op, res, v) == [NoCall(op, 0) EXCEPT !.arg = [value |-> res, view |-> v]]

\* The message of the error fetch rejects with when the network fails.
FAILED_TO_FETCH == Chars("Failed to fetch")

\* The texts typed into the search box.
QueryTexts == {<< >>, Chars("  "), Chars("cast"), Chars(" MIX "), Chars("zzz")}

\* The record of a step of the page: what was entered and the page it was on.
UiCall(op, value) == [NoCall(op, 0) EXCEPT !.arg = [value |-> value, page |-> browse.page]]

UiFrame == UNCHANGED <<slot, tabs, calls, pending, badge, cartPage, fetched, route, detail>>

\* CatalogoPage as it is first rendered, run() waiting for fetch: nothing loaded,
\* no filter, page 1.
CatalogOpened ==
    [open |-> TRUE, alive |-> TRUE, stage |-> "fetch", res |-> << >>,
     items |-> << >>, loading |-> TRUE, loadError |-> Null,
     selectedVariant |-> << >>, q |-> << >>, category |-> TODAS, page |-> 1]

\* await fetch(...) resolves with the response res; run() goes on to res.json().
FetchResolves(res) ==
    /\ browse.open /\ browse.stage = "fetch"
    /\ browse' = [browse EXCEPT !.stage = "json", !.res = res]
    /\ last' = LoadCall("fetchResolves", res, browse)
    /\ UiFrame

\* await fetch(...) rejects: the catch and the finally of run().
FetchRejects ==
    /\ browse.open /\ browse.stage = "fetch"
    /\ browse' = settle(browse, [error |-> FAILED_TO_FETCH])
    /\ last' = LoadCall("fetchRejects", << >>, browse)
    /\ UiFrame

\* await res.json() settles and run() ends: the response sets items or
\* loadError, then loading is false, when the page is still mounted.
LoadEnd ==
    /\ browse.open /\ browse.stage = "json"
    /\ browse' = [settle(browse, runOf(browse.res)) EXCEPT !.res = << >>]
    /\ last' = LoadCall("load", browse.res, browse)
    /\ UiFrame

\* The cleanup of the load effect, when the page is left: alive = false.
Teardown ==
    /\ browse.open /\ browse.alive
    /\ browse' = [browse EXCEPT !.alive = FALSE]
    /\ last' = LoadCall("teardown", << >>, browse)
    /\ UiFrame

\* "Tentar novamente" of the error screen: window.location.reload(), the page
\* starts anew.
Retry ==
    /\ browse.open /\ browse.alive /\ ~browse.loading /\ ~Falsy(browse.loadError)
    /\ browse' = CatalogOpened
    /\ last' = LoadCall("retry", << >>, browse)
    /\ UiFrame

\* onChange of the search box: setQ(e.target.value); resetToFirstPage()
SetQ(text) ==
    /\ Browsing
    /\ browse' = [browse EXCEPT !.q = text, !.page = resetToFirstPage(@)]
    /\ last' = UiCall("setQ", text)
    /\ UiFrame

\* onChange of the category select: setCategory(e.target.value); resetToFirstPage()
SetCategory(c) ==
    /\ Browsing
    /\ c \in Range(categoriesOf(browse.items))
    /\ browse' = [browse EXCEPT !.category = c, !.page = resetToFirstPage(@)]
    /\ last' = UiCall("setCategory", c)
    /\ UiFrame

\* clearFilters()
ClearFilters ==
    /\ Browsing
    /\ browse' = [browse EXCEPT !.q = << >>, !.category = TODAS, !.page = 1]
    /\ last' = UiCall("clearFilters", << >>)
    /\ UiFrame

\* prevPage(); the button is rendered with the list and disabled on the first page.
prevPage ==
    /\ Browsing
    /\ Len(Filtered) > 0 /\ SafePage > 1
    /\ browse' = [browse EXCEPT !.page = clamp(@ - 1, 1, TotalPages)]
    /\ last' = UiCall("prevPage", << >>)
    /\ UiFrame

\* nextPage(); the button is disabled on the last page.
nextPage ==
    /\ Browsing
    /\ Len(Filtered) > 0 /\ SafePage < TotalPages
    /\ browse' = [browse EXCEPT !.page = clamp(@ + 1, 1, TotalPages)]
    /\ last' = UiCall("nextPage", << >>)
    /\ UiFrame

\* CatalogoPage as it is first rendered.
InitCatalog ==
    /\ slot = NullSlot
    /\ tabs = {1}
    /\ calls = NoCalls
    /\ pending = [c \in Contexts |-> << >>]
    /\ badge = [c \in Contexts |-> Unmounted]
    /\ last = NoCall("init", 0)
    /\ cartPage = [c \in Contexts |-> PageClosed]
    /\ fetched = NotFetched
    /\ route = NoRoute
    /\ detail = DetailClosed
    /\ browse = CatalogOpened

NextCatalog ==
    \/ \E res \in Responses : FetchResolves(res)
    \/ LoadEnd
    \/ \E text \in QueryTexts : SetQ(text)
    \/ \E c \in Range(categoriesOf(browse.items)) : SetCategory(c)
    \/ ClearFilters
    \/ prevPage
    \/ nextPage

SpecCatalog == InitCatalog /\ [][NextCatalog]_vars

\* ------------------------------------------- carrinho/page.tsx, the checkout
WHATS_NUMBER == "5517981229285"
WHATS_AVAILABILITY_NOTE == "Verificar disponibilidade no WhatsApp."

\* The characters of a text written as a string, an escape ("\\u2014") being one
\* character.
Tokens(s) ==
    LET Escape(n) == n >= 1 /\ n + 5 <= Len(s) /\ SubSeq(s, n, n + 1) = "\\u"
    IN  Flatten([n \in 1..Len(s) |->
                    IF Escape(n) THEN <<SubSeq(s, n, n + 5)>>
                    ELSE IF \E m \in (n - 5)..(n - 1) : Escape(m) THEN << >>
                    ELSE <<SubSeq(s, n, n)>>])

\* The code point of a character.
CodeOf(ch) ==
    LET H(n) == HexVal(SubSeq(ch, n, n))
    IN  IF ch \in Range(Printable)
        THEN 31 + CHOOSE n \in DOMAIN Printable : Printable[n] = ch
        ELSE IF ch = "\n" THEN 10
        ELSE IF ch = "\t" THEN 9
        ELSE IF Len(ch) = 4 THEN 16 * H(3) + H(4)
        ELSE IF Len(ch) = 6 THEN 4096 * H(3) + 256 * H(4) + 16 * H(5) + H(6)
        ELSE 1048576 * H(4) + 65536 * H(5) + 4096 * H(6) + 256 * H(7) + 16 * H(8) + H(9)

\* The bytes of the UTF-8 encoding of the code point cp.
Utf8(cp) ==
    IF cp < 128 THEN <<cp>>
    ELSE IF cp < 2048 THEN <<192 + (cp \div 64), 128 + (cp % 64)>>
    ELSE IF cp < 65536 THEN <<224 + (cp \div 4096), 128 + ((cp \div 64) % 64), 128 + (cp % 64)>>
    ELSE <<240 + (cp \div 262144), 128 + ((cp \div 4096) % 64), 128 + ((cp \div 64) % 64),
           128 + (cp % 64)>>

UpperHexDigits == Chars("0123456789ABCDEF")

\* The characters encodeURIComponent leaves as they are.
Unreserved ==
    Range(UpperCase) \cup Range(LowerCase) \cup Range(Digits)
        \cup {"-", "_", ".", "!", "~", "*", "'", "(", ")"}

\* encodeURIComponent(s), of a text without lone surrogates (for which it throws):
\* every other character becomes the escapes of its UTF-8 bytes.
encodeURIComponent(s) ==
    Flatten([n \in 1..Len(s) |->
                IF s[n] \in Unreserved THEN <<s[n]>>
                ELSE LET bytes == Utf8(CodeOf(s[n]))
                     IN  Flatten([k \in 1..Len(bytes) |->
                                     <<"%", UpperHexDigits[(bytes[k] \div 16) + 1],
                                       UpperHexDigits[(bytes[k] % 16) + 1]>>])])

\* buildWhatsUrl(message)
buildWhatsUrl(message) ==
    Chars("https://wa.me/" \o WHATS_NUMBER \o "?text=") \o encodeURIComponent(Tokens(message))

\* "(nao informado)", with a-tilde
NAO_INFORMADO == "(n\\u00e3o informado)"

\* A variant of OrText that keeps the text of the form as it is.
OrText_Keep(a, b) == a

\* a || b, for the texts of the form
OrText(a, b) == IF a = "" THEN b ELSE a

\* A variant of totalItemsOf that counts the lines.
totalItemsOf_Count(items) == Len(items)

\* totalItems: items.reduce((acc, i) => acc + getQty(i), 0)
RECURSIVE totalItemsOf(_)
totalItemsOf(items) ==
    IF items = << >> THEN 0 ELSE getQty(Head(items)) + totalItemsOf(Tail(items))

\* lines.join(sep)
RECURSIVE Join(_, _)
Join(lines, sep) ==
    IF lines = << >> THEN ""
    ELSE IF Len(lines) = 1 THEN lines[1]
    ELSE lines[1] \o sep \o Join(Tail(lines), sep)

\* The array buildMessage() joins, for the page state p.  The dashes and the
\* accented letters of the texts are written as their escapes.
buildMessageLines(p) ==
    LET lines == [k \in 1..Len(p.items) |->
                     "- " \o ToString(getQty(p.items[k])) \o "x " \o getName(p.items[k])
                          \o " \\u2014 " \o getVariantLabel(p.items[k])]
        totalItems == totalItemsOf(p.items)
    IN  IF p.city = "RIO_PRETO"
        THEN << "Pedido \\u2013 Cat\\u00e1logo (Entrega local)",
                "",
                "Cidade: S\\u00e3o Jos\\u00e9 do Rio Preto - SP",
                "",
                "Itens:" >>
             \o lines
             \o << "",
                   "Total de itens: " \o ToString(totalItems),
                   "",
                   WHATS_AVAILABILITY_NOTE,
                   "",
                   "Endere\\u00e7o:",
                   "- Bairro/Endere\\u00e7o: " \o OrText(p.bairro, NAO_INFORMADO),
                   "- N\\u00ba: " \o OrText(p.numeroCasa, NAO_INFORMADO),
                   "- Refer\\u00eancia: " \o OrText(p.referencia, NAO_INFORMADO),
                   "- Prefer\\u00eancia de per\\u00edodo: " \o OrText(p.periodo, NAO_INFORMADO) >>
        ELSE << "Lista \\u2013 Compra online (fora de S\\u00e3o Jos\\u00e9 do Rio Preto)",
                "",
                "Quero os links/onde comprar destes itens:" >>
             \o lines
             \o << "",
                   "Total de itens: " \o ToString(totalItems),
                   "",
                   WHATS_AVAILABILITY_NOTE >>

\* buildMessage()
buildMessage(p) == Join(buildMessageLines(p), "\n")

\* A variant of openWhatsAppOf that asks for no destination.
openWhatsAppOf_AnyCity(p) ==
    IF ~p.hydrated \/ Len(p.items) = 0
    THEN [alert |-> "Seu carrinho est\\u00e1 vazio."]
    ELSE [href |-> buildWhatsUrl(buildMessage(p)),
          lines |-> buildMessageLines(p), message |-> buildMessage(p)]

\* What openWhatsApp() does for the page state p: an alert, or the navigation to
\* WhatsApp (window.location.href) with the message as the text.
openWhatsAppOf(p) ==
    IF ~p.hydrated \/ Len(p.items) = 0
    THEN [alert |-> "Seu carrinho est\\u00e1 vazio."]
    ELSE IF p.city = ""
    THEN [alert |-> "Selecione se voc\\u00ea est\\u00e1 em S\\u00e3o Jos\\u00e9 do Rio Preto ou em outra cidade."]
    ELSE [href |-> buildWhatsUrl(buildMessage(p)),
          lines |-> buildMessageLines(p), message |-> buildMessage(p)]

PageFrame == UNCHANGED <<slot, tabs, calls, pending, badge, fetched, browse, route, detail>>

\* onChange of the city select (disabled until hydrated)
SetCity(c, v) ==
    /\ cartPage[c].hydrated
    /\ cartPage' = [cartPage EXCEPT ![c].city = v]
    /\ last' = NoCall("setCity", c)
    /\ PageFrame

\* onChange of an address input; the inputs are rendered for city RIO_PRETO.
SetAddress(c, field, v) ==
    /\ cartPage[c].hydrated /\ cartPage[c].city = "RIO_PRETO"
    /\ cartPage' = [cartPage EXCEPT ![c][field] = v]
    /\ last' = NoCall("setAddress", c)
    /\ PageFrame

\* openWhatsApp().  Its button is disabled until hydrated and while the cart
\* shown is empty; the handler tests both again, and it is the handler that is
\* run here, in whatever state the page is in.
openWhatsApp(c) ==
    /\ c \in tabs
    /\ last' = [NoCall("openWhatsApp", c) EXCEPT !.ret = openWhatsAppOf(cartPage[c])]
    /\ UNCHANGED cartPage
    /\ PageFrame

\* The carts the page may find in the slot: up to MaxLines lines of distinct
\* identity, with and without a variant label, of quantities 1..MaxStored.
CheckoutLines ==
    {CartItemOf(id[1], id[2], n) : id \in {<<"A", "250g">>, <<"B", Undefined>>}, n \in 1..MaxStored}

RECURSIVE CheckoutCarts(_)
CheckoutCarts(n) ==
    IF n = 0 THEN {<< >>}
    ELSE CheckoutCarts(n - 1)
         \cup {Append(l, i) : l \in CheckoutCarts(n - 1), i \in CheckoutLines}

\* The texts typed into an address input: nothing, a text, a space.
AddressTexts == {"", "x 1", " "}

\* One tab entering the cart page, the cart having been filled before.
InitCheckout ==
    /\ slot \in {JSONstringify(l) :
                    l \in {m \in CheckoutCarts(MaxLines) :
                              \A j, k \in DOMAIN m : j # k => keyOf(m[j]) # keyOf(m[k])}}
    /\ tabs = {1}
    /\ calls = NoCalls
    /\ pending = [c \in Contexts |-> << >>]
    /\ badge = [c \in Contexts |-> Unmounted]
    /\ last = NoCall("init", 0)
    /\ ViewsIdle

NextCheckout ==
    \/ PageMount(1)
    \/ \E v \in {"", "RIO_PRETO", "OUTRA"} : SetCity(1, v)
    \/ \E field \in {"bairro", "numeroCasa", "referencia", "periodo"}, v \in AddressTexts :
           SetAddress(1, field, v)
    \/ openWhatsApp(1)

SpecCheckout == InitCheckout /\ [][NextCheckout]_vars

\* ---------------------------------------- produto/[slug]/produto-client.tsx
\* ProdutoClient as it is first rendered for the route's slug raw, run() waiting
\* for fetch: normalizedSlug is normalizeSlug(rawSlug), nothing is loaded, no
\* variant is chosen, the quantity is 1.
DetailOpenedAt(normalizedSlug) ==
    [open |-> TRUE, alive |-> TRUE, stage |-> "fetch", res |-> << >>,
     slug |-> normalizedSlug,
     items |-> << >>, loading |-> TRUE, loadError |-> Null,
     variantId |-> "", qty |-> 1, justAdded |-> FALSE, inlineNotice |-> Null,
     addedTimer |-> FALSE]

DetailOpened(raw) == DetailOpenedAt(normalizeSlug(raw))

\* items.find(...): the first of the matching items as <<p>>, << >> without one.
firstOf(matching) == IF matching = << >> THEN << >> ELSE <<matching[1]>>

\* product: none (<< >>) for an empty normalizedSlug, else the first item whose
\* normalized slug is the normalizedSlug (<<p>>), if there is one.
productOf(d) ==
    IF d.slug = << >> THEN << >>
    ELSE firstOf(SelectSeq(d.items, LAMBDA p : normalizeSlug(p.slug) = d.slug))

\* variantOptions
variantOptionsOf(product) ==
    IF product = << >> THEN << >>
    ELSE IF Len(product[1].variants) > 0 THEN product[1].variants
    ELSE <<[id |-> "default", label |-> PADRAO, status |-> "ENCOMENDA"]>>

\* selectedVariant: none (<< >>) without a product, else the option of the
\* effective variant id (variantId || firstVariantId), else the first option.
selectedAmong(options, variantId) ==
    LET firstVariantId == IF options = << >> THEN "" ELSE options[1].id
        effectiveVariantId == IF variantId # "" THEN variantId ELSE firstVariantId
        hits == {k \in 1..Len(options) : options[k].id = effectiveVariantId}
    IN  IF options = << >> THEN << >>
        ELSE IF hits = {} THEN <<options[1]>>
        ELSE <<options[CHOOSE k \in hits : \A m \in hits : k <= m]>>

selectedVariantOf(d) == selectedAmong(variantOptionsOf(productOf(d)), d.variantId)

\* canAdd, for the product and the selected variant of the render.
canAddWith(product, selectedVariant) ==
    /\ product # << >>
    /\ selectedVariant # << >>
    /\ selectedVariant[1].status # "SEM_ESTOQUE"

canAddOf(d) == canAddWith(productOf(d), selectedVariantOf(d))

\* Which screen ProdutoClient returns.
renderOf(d) ==
    IF d.loading THEN "loading"
    ELSE IF ~Falsy(d.loadError) THEN "error"
    ELSE IF productOf(d) = << >> THEN "notFound"
    ELSE "product"

DetailFrame == UNCHANGED <<slot, tabs, calls, pending, badge, cartPage, fetched, browse, route>>

\* await fetch(...) resolves in ProdutoClient's run().
DetailFetchResolves(res) ==
    /\ detail.open /\ detail.stage = "fetch"
    /\ detail' = [detail EXCEPT !.stage = "json", !.res = res]
    /\ last' = LoadCall("detailFetchResolves", res, detail)
    /\ DetailFrame

\* await fetch(...) rejects in ProdutoClient's run().
DetailFetchRejects ==
    /\ detail.open /\ detail.stage = "fetch"
    /\ detail' = settle(detail, [error |-> FAILED_TO_FETCH])
    /\ last' = LoadCall("detailFetchRejects", << >>, detail)
    /\ DetailFrame

\* await res.json() settles and ProdutoClient's run() ends.
DetailLoadEnd ==
    /\ detail.open /\ detail.stage = "json"
    /\ detail' = [settle(detail, runOf(detail.res)) EXCEPT !.res = << >>]
    /\ last' = LoadCall("detailLoad", detail.res, detail)
    /\ DetailFrame

\* The cleanups of ProdutoClient's effects, when the view is left: alive = false,
\* and the timer of the button's feedback is cleared.
DetailTeardown ==
    /\ detail.open /\ detail.alive
    /\ detail' = [detail EXCEPT !.alive = FALSE, !.addedTimer = FALSE]
    /\ last' = LoadCall("detailTeardown", << >>, detail)
    /\ DetailFrame

\* "Tentar novamente" of the error screen: window.location.reload().
DetailRetry ==
    /\ detail.open /\ detail.alive /\ renderOf(detail) = "error"
    /\ detail' = DetailOpenedAt(detail.slug)
    /\ last' = LoadCall("detailRetry", << >>, detail)
    /\ DetailFrame

\* What the two views may get from fetch("/api/products"): what GET answers for
\* two products, for no product and for an error; a status 500 with an empty
\* message; a body that is no JSON, under either status; and a status 200 whose
\* body holds an error and no products.
ViewResponses ==
    { GET([ok |-> TRUE, products |-> [k \in 1..2 |-> CatalogProductAt(k)]]),
      GET([ok |-> TRUE, products |-> << >>]),
      GET([ok |-> FALSE, message |-> "Erro inesperado"]),
      Answer(FALSE, [error |-> << >>]),
      Answer(FALSE, NotJson),
      Answer(TRUE, NotJson),
      Answer(TRUE, [error |-> Chars("Erro inesperado")]) }

\* The slugs the product route is entered with: of the first product in upper
\* case, of the second as escapes and with a query, of no product, the empty
\* slug, and no slug.
RouteSlugs == {Chars("P1"), Chars("%70%32?x=1"), Chars("p9"), << >>, Null}

\* The catalog page and a product page, each loading the catalog.
InitViews ==
    /\ slot = NullSlot
    /\ tabs = {1}
    /\ calls = NoCalls
    /\ pending = [c \in Contexts |-> << >>]
    /\ badge = [c \in Contexts |-> Unmounted]
    /\ last = NoCall("init", 0)
    /\ cartPage = [c \in Contexts |-> PageClosed]
    /\ fetched = NotFetched
    /\ route = NoRoute
    /\ browse = CatalogOpened
    /\ \E raw \in RouteSlugs : detail = DetailOpened(raw)

NextViews ==
    \/ \E res \in ViewResponses : FetchResolves(res)
    \/ FetchRejects
    \/ LoadEnd
    \/ Teardown
    \/ Retry
    \/ \E res \in ViewResponses : DetailFetchResolves(res)
    \/ DetailFetchRejects
    \/ DetailLoadEnd
    \/ DetailTeardown
    \/ DetailRetry

SpecViews == InitViews /\ [][NextViews]_vars

\* ------------------------------------------------ adding from the two views
\* A text of the catalog as the string the cart stores.
RECURSIVE Text(_)
Text(chars) == IF chars = << >> THEN "" ELSE Head(chars) \o Text(Tail(chars))

\* p.images?.[0]
firstImageOf(p) == IF Len(p.images) > 0 THEN Text(p.images[1]) ELSE Undefined

\* The notice of add() for a variant that is out of stock.
SEM_ESTOQUE_NOTICE == Tokens("Sem estoque no momento. Selecione outra varia\\u00e7\\u00e3o.")

\* The record of a step of a view that may call the store: the view before it.
ViewCall(op, value, v) == [value |-> value, view |-> v]

\* The call of addToCart(input) by a view, which v was before it.
viewAdd(op, input, v) ==
    LET next == addToCartList(getCartOf(slot, FALSE), input)
    IN  /\ Bounded(1, next)
        /\ Effects(setCart(World, 1, next, Healthy), op, 1, ViewCall(op, input, v), Healthy, << >>)

\* The product screen is rendered: the load has ended without error and the
\* slug has a product.
rendersProduct(product) ==
    detail.open /\ detail.alive /\ ~detail.loading /\ Falsy(detail.loadError) /\ product # << >>

\* setQty((q) => clamp(q - 1, 1, 99)) and setQty((q) => clamp(q + 1, 1, 99)):
\* the two buttons of the quantity, which the product screen renders.
setQty(product, step) ==
    /\ rendersProduct(product)
    /\ detail' = [detail EXCEPT !.qty = clamp(@ + step, 1, 99)]
    /\ last' = LoadCall("setQty", step, detail)
    /\ DetailFrame

\* onChange of the variant select, which the product screen renders with the
\* options of the product.
setVariantId(product, id) ==
    /\ rendersProduct(product)
    /\ id \in {v.id : v \in Range(variantOptionsOf(product))}
    /\ detail' = [detail EXCEPT !.variantId = id, !.inlineNotice = Null, !.justAdded = FALSE]
    /\ last' = LoadCall("setVariantId", id, detail)
    /\ DetailFrame

\* The item add() hands to addToCart.
addInput(product, selectedVariant, qty) ==
    [sku |-> Text(product[1].id), name |-> Text(product[1].name),
     photo |-> firstImageOf(product[1]),
     variantLabel |-> selectedVariant[1].label, qty |-> qty]

\* The body of add(), for the product and the selected variant of the render.
addWith(product, selectedVariant) ==
    IF product = << >> \/ selectedVariant = << >>
    THEN /\ detail' = detail
         /\ last' = [NoCall("detailAdd", 1) EXCEPT !.arg = ViewCall("detailAdd", << >>, detail)]
         /\ UNCHANGED <<slot, tabs, calls, pending, badge>>
    ELSE IF selectedVariant[1].status = "SEM_ESTOQUE"
    THEN /\ detail' = [detail EXCEPT !.inlineNotice = SEM_ESTOQUE_NOTICE]
         /\ last' = [NoCall("detailAdd", 1) EXCEPT !.arg = ViewCall("detailAdd", << >>, detail)]
         /\ UNCHANGED <<slot, tabs, calls, pending, badge>>
    ELSE /\ viewAdd("detailAdd", addInput(product, selectedVariant, detail.qty), detail)
         /\ detail' = [detail EXCEPT !.inlineNotice = Null, !.justAdded = TRUE,
                                     !.addedTimer = TRUE]

\* add() of ProdutoClient.  The handler is taken as it is written, whether or
\* not the button that calls it is rendered and enabled.
add(product) ==
    /\ detail.open /\ detail.alive
    /\ addWith(product, selectedAmong(variantOptionsOf(product), detail.variantId))
    /\ UNCHANGED <<cartPage, fetched, browse, route>>

\* The handlers of ProdutoClient, for the product of the render.
ProductHandlers(product) ==
    \/ \E step \in {-1, 1} : setQty(product, step)
    \/ \E id \in {"v1", "v2"} : setVariantId(product, id)
    \/ add(product)

\* The timer add() starts fires: setJustAdded(false).
addedTimerFires ==
    /\ detail.open /\ detail.addedTimer
    /\ detail' = [detail EXCEPT !.justAdded = FALSE, !.addedTimer = FALSE]
    /\ last' = LoadCall("addedTimerFires", << >>, detail)
    /\ DetailFrame

\* variantOptions of the card of p in the grid.
cardOptionsOf(p) ==
    IF Len(p.variants) > 0 THEN p.variants
    ELSE <<[id |-> "default", label |-> PADRAO, status |-> "ENCOMENDA"]>>

\* chosen: selectedVariant[p.id] || variantOptions[0]?.label || "Padrao"
chosenOf(selected, p) ==
    IF p.id \in DOMAIN selected /\ selected[p.id] # "" THEN selected[p.id]
    ELSE IF cardOptionsOf(p)[1].label # "" THEN cardOptionsOf(p)[1].label
    ELSE PADRAO

\* The item handleAdd() of the card of p hands to addToCart.
cardInput(p, selected) ==
    [sku |-> Text(p.id), name |-> Text(p.name), photo |-> firstImageOf(p),
     variantLabel |-> chosenOf(selected, p), qty |-> 1]

\* handleAdd() of the k-th card of the page shown.
handleAdd(shown, k) ==
    /\ Browsing
    /\ k \in 1..Len(shown)
    /\ viewAdd("gridAdd", cardInput(shown[k], browse.selectedVariant), browse)
    /\ UNCHANGED views

\* The one product of a shop whose first variant is out of stock.
StockedProduct ==
    [CatalogProductAt(1) EXCEPT !.variants =
        <<[id |-> "v1", label |-> "1kg", status |-> "SEM_ESTOQUE"],
          [id |-> "v2", label |-> "250g", status |-> "ENCOMENDA"]>>]

\* What the two views get from fetch: that shop, and a shop without products.
AddResponses ==
    { Answer(TRUE, [products |-> <<StockedProduct>>]),
      Answer(TRUE, [products |-> << >>]) }

\* The catalog page and the page of the product p1, in one tab.
InitAdd ==
    /\ slot = NullSlot
    /\ tabs = {1}
    /\ calls = NoCalls
    /\ pending = [c \in Contexts |-> << >>]
    /\ badge = [c \in Contexts |-> Unmounted]
    /\ last = NoCall("init", 0)
    /\ cartPage = [c \in Contexts |-> PageClosed]
    /\ fetched = NotFetched
    /\ route = NoRoute
    /\ browse = CatalogOpened
    /\ detail = DetailOpened(Chars("p1"))

NextAdd ==
    \/ FetchResolves(Answer(TRUE, [products |-> <<StockedProduct>>]))
    \/ LoadEnd
    \/ \E res \in AddResponses : DetailFetchResolves(res)
    \/ DetailLoadEnd
    \/ ProductHandlers(productOf(detail))
    \/ addedTimerFires
    \/ handleAdd(PageItems, 1)

SpecAdd == InitAdd /\ [][NextAdd]_vars


\* =================================================================== claims
\* The lines getCart() returns now.
Cart == getCartOf(slot, FALSE)

KeysOf(items) == {keyOf(items[n]) : n \in 1..Len(items)}

\* The lines of items whose identity key is not k, in their order.
Without(items, k) ==
    LET Other(i) == keyOf(i) # k
    IN  SelectSeq(items, Other)

MutatingOps == {"add", "update", "remove", "clear"}

\* C1: after any sequence of addToCart, updateCartItem, removeCartItem and
\* clearCart calls from an empty cart, no two lines of getCart() have the same
\* identity key.
C1_UniqueKeys ==
    \A m, n \in 1..Len(Cart) : m # n => keyOf(Cart[m]) # keyOf(Cart[n])

\* Reached: an add has just appended a third line, two of the lines being of the
\* same sku (one with a variant label, one with the default sentinel).
C1_Witness ==
    /\ last.op = "add"
    /\ Len(Cart) = 3
    /\ Len(last.before) = 2
    /\ \E m, n \in 1..3 : m # n /\ Cart[m].sku = Cart[n].sku

\* C2: every stored line has qty >= 1, whatever integer quantities the calls ask
\* for (zero and negative ones included).
C2_QtyAtLeastOne ==
    \A n \in 1..Len(Cart) : Cart[n].qty >= 1

\* Reached: an update to a quantity <= 0 of a line that was stored beside another
\* line, which is still there.
C2_Witness ==
    /\ last.op = "update"
    /\ last.arg.qty <= 0
    /\ keyOf(last.arg) \in KeysOf(last.before)
    /\ Len(last.before) = 2
    /\ Len(Cart) = 1

\* C3: addToCart(item) with requested quantity r: a line of the same identity key
\* with quantity e becomes max(1, e + max(1, r)) in place; otherwise one line of
\* quantity max(1, r) is appended; the other lines and the order do not change.
C3_AddMerges ==
    last.op = "add" =>
        LET b == last.before
            k == keyOf(last.arg)
            r == last.arg.qty
        IN  IF k \in KeysOf(b)
            THEN /\ Len(Cart) = Len(b)
                 /\ \A n \in 1..Len(b) :
                        IF keyOf(b[n]) = k
                        THEN Cart[n] = [b[n] EXCEPT !.qty = Max(1, b[n].qty + Max(1, r))]
                        ELSE Cart[n] = b[n]
            ELSE /\ Len(Cart) = Len(b) + 1
                 /\ SubSeq(Cart, 1, Len(b)) = b
                 /\ keyOf(Cart[Len(Cart)]) = k
                 /\ Cart[Len(Cart)].qty = Max(1, r)

\* Reached: the scenario of the specification: (A, 250g, 1) is stored, (A, 250g, 2)
\* is added, and the cart is the one line (A, 250g) with qty 3.
C3_Witness ==
    /\ last.op = "add"
    /\ Len(last.before) = 1
    /\ keyOf(last.before[1]) = "A::250g"
    /\ last.before[1].qty = 1
    /\ keyOf(last.arg) = "A::250g"
    /\ last.arg.qty = 2
    /\ Len(Cart) = 1
    /\ Cart[1].sku = "A" /\ Cart[1].variantLabel = "250g" /\ Cart[1].qty = 3

\* The quantity stored for identity key k in items; 0 when no line has the key.
QtyOf(items, k) ==
    LET idx == findIndex(items, k)
    IN  IF idx = 0 THEN 0 ELSE items[idx].qty

\* C4, as claimed: for all integer quantities a and b, addToCart with qty a and
\* then with qty b on one identity stores the same quantity for it as one
\* addToCart with qty a + b.  (The add of a is the call just made; the add of b
\* and the single add of a + b are computed from the lists after and before it.)
C4_AddAssociativeAnyQty ==
    last.op = "add" =>
        LET k == keyOf(last.arg)
            a == last.arg.qty
        IN  \A b \in ReqQtys :
                QtyOf(addToCartList(Cart, Spread(last.arg, "qty", b)), k)
                    = QtyOf(addToCartList(last.before, Spread(last.arg, "qty", a + b)), k)

\* C4, amended: the same for quantities a >= 1 and b >= 1.
C4_AddAssociativePositive ==
    last.op = "add" =>
        LET k == keyOf(last.arg)
            a == last.arg.qty
        IN  \A b \in ReqQtys :
                (a >= 1 /\ b >= 1) =>
                    QtyOf(addToCartList(Cart, Spread(last.arg, "qty", b)), k)
                        = QtyOf(addToCartList(last.before, Spread(last.arg, "qty", a + b)), k)

\* Reached: an add of qty 2 has been merged into a stored line of qty 1.
C4_Witness ==
    /\ last.op = "add"
    /\ last.arg.qty = 2
    /\ QtyOf(last.before, keyOf(last.arg)) = 1
    /\ QtyOf(Cart, keyOf(last.arg)) = 3

\* C5: updateCartItem(identity, newQty) removes the line when newQty <= 0 and
\* otherwise sets its quantity to newQty; the other lines and the order do not
\* change.
C5_UpdateReplacesOrRemoves ==
    last.op = "update" =>
        LET b == last.before
            k == keyOf(last.arg)
            q == last.arg.qty
        IN  IF q <= 0
            THEN /\ k \notin KeysOf(Cart)
                 /\ Cart = Without(b, k)
            ELSE /\ Len(Cart) = Len(b)
                 /\ \A n \in 1..Len(b) :
                        IF keyOf(b[n]) = k
                        THEN Cart[n] = [b[n] EXCEPT !.qty = q]
                        ELSE Cart[n] = b[n]

\* Reached: updateCartItem(identity, 0) on the middle line of three.
C5_Witness ==
    /\ last.op = "update"
    /\ last.arg.qty = 0
    /\ Len(last.before) = 3
    /\ keyOf(last.before[2]) = keyOf(last.arg)
    /\ Cart = <<last.before[1], last.before[3]>>

\* C6: removeCartItem(identity) deletes exactly the line of that identity key and
\* leaves the others in their order; when no line has the key the list is as it
\* was.
C6_RemoveExactlyOne ==
    last.op = "remove" =>
        LET b == last.before
            k == keyOf(last.arg)
        IN  /\ Cart = Without(b, k)
            /\ Len(Cart) = Len(b) - (IF k \in KeysOf(b) THEN 1 ELSE 0)
            /\ \A n \in 1..Len(b) : keyOf(b[n]) # k => \E m \in 1..Len(Cart) : Cart[m] = b[n]
            /\ k \notin KeysOf(b) => Cart = b

\* Reached: a line was removed while another line of the same sku stays.
C6_Witness ==
    /\ last.op = "remove"
    /\ keyOf(last.arg) \in KeysOf(last.before)
    /\ Len(Cart) = 2
    /\ \E n \in 1..Len(Cart) : Cart[n].sku = last.arg.sku

\* The list a mutating call computes from the list it read.
Produced ==
    CASE last.op = "add" -> addToCartList(last.before, last.arg)
      [] last.op = "update" -> updateCartItemList(last.before, last.arg)
      [] last.op = "remove" -> removeCartItemList(last.before, last.arg)
      [] last.op = "clear" -> << >>

\* What getCart() returns once items has been written: a property that was
\* undefined is not stored.
ReadBack(items) == getCartOf(JSONstringify(items), FALSE)

\* C7: every mutating operation writes the full updated list to the slot and
\* then emits exactly one change notification, so a listener that calls getCart()
\* while handling it reads the list the operation produced; after clearCart it
\* reads the empty list.
C7_WriteThenNotify ==
    last.op \in MutatingOps =>
        /\ slot = JSONstringify(Produced)
        /\ last.emits = 1
        /\ last.heard = <<Cart>>
        /\ last.heard = <<ReadBack(Produced)>>
        /\ last.op = "clear" => last.heard = << << >> >>

\* Reached: clearCart on a cart of two lines; the listener read the empty list.
C7_Witness ==
    /\ last.op = "clear"
    /\ Len(last.before) = 2
    /\ last.emits = 1
    /\ last.heard = << << >> >>

\* C8, as claimed: when the write to the slot throws, a mutating operation lets
\* no error reach its caller and still emits the change notification.
C8_WriteFailureContained ==
    (last.op \in MutatingOps /\ last.env.writeThrows) =>
        (~last.threw /\ last.emits = 1)

\* C9: getCart() never fails; it returns the stored array verbatim, and the empty
\* list when the slot is absent, empty, unreadable, not parseable or no array; it
\* leaves the slot as it is.
C9_GetCartTotal ==
    last.op = "get" =>
        /\ ~last.threw
        /\ slot = last.slot0
        /\ last.ret =
             IF last.env.readThrows THEN << >>
             ELSE IF last.slot0.kind \in {"null", "empty", "bad"} THEN << >>
             ELSE IF last.slot0.value.t = "arr" THEN last.slot0.value.elems
             ELSE << >>

\* Reached: getCart() on a slot that holds JSON that is no array.
C9_Witness ==
    /\ last.op = "get"
    /\ ~last.env.readThrows
    /\ last.slot0.kind = "json"
    /\ last.slot0.value.t = "obj"
    /\ last.ret = << >>

\* C10: while a useCartCount subscriber is mounted, once the storage events
\* queued for its context have been delivered, its count is the sum of the
\* quantities of the lines in the persisted cart, whichever context made the
\* changes.
C10_BadgeConsistent ==
    \A c \in tabs :
        (badge[c].mounted /\ pending[c] = << >>) => badge[c].count = SumQty(Cart)

\* Reached: both badges mounted; a storage event has just been delivered to
\* context 2, nothing is pending there, and its badge shows the 3 items of the
\* two stored lines.
C10_Witness ==
    /\ last.op = "deliver"
    /\ last.ctx = 2
    /\ badge[1].mounted
    /\ badge[2].mounted
    /\ pending[2] = << >>
    /\ Len(Cart) = 2
    /\ SumQty(Cart) = 3
    /\ badge[2].count = 3

\* C11, as claimed: while the cart page is open in a context, once the storage
\* events queued for that context have been delivered, the lines the page shows
\* are the lines of the persisted cart, whichever view or context changed it (no
\* button of the page has to be pressed).
C11_PageFollowsLedger ==
    \A c \in tabs :
        (cartPage[c].hydrated /\ pending[c] = << >>) => cartPage[c].items = Cart

\* The loader has returned a list.
Loaded == fetched.called /\ fetched.result.ok

\* The positions in the variants query's result of the rows of product p.
RowsOf(p) == {n \in DOMAIN fetched.db.variants : fetched.db.variants[n].product_sku = p.sku}

\* The n-th smallest element of the set of numbers S.
Nth(S, n) == CHOOSE x \in S : Cardinality({y \in S : y < x}) = n - 1

\* C12: for every raw product the normalized variants list is non-empty: it is
\* the one synthetic variant {id: "default", label: "Padrao" (a-tilde)} when the
\* product has no raw variant, and holds no synthetic variant when it has one.
C12_VariantsNonEmpty ==
    Loaded =>
        \A k \in DOMAIN fetched.db.products :
            /\ k \in DOMAIN fetched.result.products
            /\ LET p == fetched.db.products[k]
                   out == fetched.result.products[k].variants
               IN  /\ Len(out) >= 1
                   /\ RowsOf(p) = {} =>
                          /\ Len(out) = 1
                          /\ out[1].id = "default"
                          /\ out[1].label = "Padr\\u00e3o"
                   /\ RowsOf(p) # {} =>
                          \A n \in DOMAIN out :
                              /\ out[n].id # "default"
                              /\ \E v \in VariantRows : v.id = out[n].id /\ v.label = out[n].label

\* Reached: a product without raw variants got the synthetic variant, beside a
\* product that kept its two raw variants.
C12_Witness ==
    /\ Loaded
    /\ \E j, k \in DOMAIN fetched.db.products :
           /\ RowsOf(fetched.db.products[j]) = {}
           /\ fetched.result.products[j].variants[1].id = "default"
           /\ Cardinality(RowsOf(fetched.db.products[k])) = 2
           /\ Len(fetched.result.products[k].variants) = 2

C14_ImageOrPlaceholder ==
    Loaded =>
        \A k \in DOMAIN fetched.result.products :
            LET p == fetched.db.products[k]
                images == fetched.result.products[k].images
            IN  /\ Len(images) = 1
                /\ images[1] = IF p.photo_url # Null /\ trim(p.photo_url) # << >>
                               THEN p.photo_url
                               ELSE PLACEHOLDER

\* The unreserved characters of a URL.
UrlSafeChars == Range(LowerCase) \cup Range(UpperCase) \cup Range(Digits) \cup {"-", ".", "_", "~"}

\* C15, as claimed: for every raw product, whatever its name and its sku, the
\* normalized slug is non-empty and URL-safe; it is slugify(name) when that is
\* non-empty and the sku when the name slugifies to the empty string.
C15_SlugValid ==
    Loaded =>
        \A k \in DOMAIN fetched.result.products :
            LET p == fetched.db.products[k]
                slug == fetched.result.products[k].slug
                fromName == slugify(IF p.name = Null THEN << >> ELSE p.name)
            IN  /\ slug # << >>
                /\ \A n \in DOMAIN slug : slug[n] \in UrlSafeChars
                /\ slug = IF fromName # << >> THEN fromName ELSE p.sku

RequestedPages == -1..(totalPagesOf(MaxCatalog) + 2)

\* C17: for the filtered list of n products and every requested page,
\* totalPages = max(1, ceil(n / 9)), safePage is the requested page clamped to
\* 1..totalPages, and pageItems are the products at the positions
\* (safePage-1)*9+1 .. safePage*9 of the list that exist; n = 0 gives one page
\* and no items; 21 products give 3 pages, 9 items on page 1 and 3 on page 3.
C17_Pagination ==
    Browsing =>
        LET list == Filtered
            n == Len(list)
            total == totalPagesOf(n)
        IN  /\ total >= 1
            /\ n = 0 => total = 1
            /\ n > 0 => ((total - 1) * 9 < n /\ n <= total * 9)
            /\ TotalPages = total
            /\ \A r \in RequestedPages \cup {browse.page} :
                   LET safe == safePageOf(r, total)
                       shown == pageItemsOf(list, safe)
                       from == (safe - 1) * 9 + 1
                       to == IF safe * 9 <= n THEN safe * 9 ELSE n
                   IN  /\ safe = (IF r < 1 THEN 1 ELSE IF r > total THEN total ELSE r)
                       /\ Len(shown) = (IF to >= from THEN to - from + 1 ELSE 0)
                       /\ \A k \in DOMAIN shown : shown[k] = list[from + k - 1]
                       /\ n = 0 => shown = << >>
            /\ n = 21 =>
                   /\ total = 3
                   /\ Len(pageItemsOf(list, safePageOf(1, total))) = 9
                   /\ Len(pageItemsOf(list, safePageOf(3, total))) = 3
            /\ SafePage = safePageOf(browse.page, total)
            /\ PageItems = pageItemsOf(list, SafePage)

\* Reached: 21 products, no filter, the page moved to 3 by the pager: page 3 of 3
\* shows the last 3 products.
C17_Witness ==
    /\ Browsing
    /\ last.op = "nextPage"
    /\ Len(Filtered) = 21
    /\ TotalPages = 3
    /\ SafePage = 3
    /\ PageItems = SubSeq(browse.items, 19, 21)

\* C18: a change of the search text, a change of the category and the clearing
\* of the filters each leave the requested page at 1, so that the page rendered
\* next is page 1.
C18_FilterChangeResetsPage ==
    last.op \in {"setQ", "setCategory", "clearFilters"} =>
        /\ browse.page = 1
        /\ SafePage = 1

\* Reached: on page 3 a category was selected that still fills two pages; the
\* page is 1.
C18_Witness ==
    /\ last.op = "setCategory"
    /\ last.arg.page = 3
    /\ browse.category # TODAS
    /\ TotalPages = 2
    /\ browse.page = 1

\* C19: the filtered list holds exactly the products p of the catalog, in the
\* catalog's order, for which (the normalized search text is empty, or the
\* normalized name contains it, or the normalized description contains it) and
\* (the selected category is "TODAS" or p.category equals it exactly); a product
\* that matches one of the two filters only is not shown.
C19_FilterConjunction ==
    Browsing =>
        LET text == normalizeText(browse.q)
            TextOk(p) == \/ text = << >>
                         \/ Includes(normalizeText(p.name), text)
                         \/ Includes(normalizeText(p.description), text)
            CategoryOk(p) == browse.category = TODAS \/ p.category = browse.category
            items == browse.items
            shown == Filtered
            both == {k \in DOMAIN items : TextOk(items[k]) /\ CategoryOk(items[k])}
            oneOnly == {k \in DOMAIN items : TextOk(items[k]) # CategoryOk(items[k])}
        IN  /\ Len(shown) = Cardinality(both)
            /\ \A j \in DOMAIN shown : shown[j] = items[Nth(both, j)]
            /\ \A k \in oneOnly : items[k] \notin Range(shown)

\* Reached: the text " MIX " and the category "Mix" are both set on a catalog of
\* 21 products: some products match the text only, some the category only, and
\* the products shown are fewer than either filter alone would show.
C19_Witness ==
    /\ Browsing
    /\ Len(browse.items) = 21
    /\ browse.q = Chars(" MIX ")
    /\ browse.category = Chars("Mix")
    /\ Len(Filtered) > 0
    /\ Len(Filtered) < Len(filteredOf(browse.items, browse.q, TODAS))
    /\ Len(Filtered) < Len(filteredOf(browse.items, << >>, browse.category))

\* C20: the message composed for the checkout holds one line per cart line, in
\* the cart's order, each "- <qty>x <name> (em dash) <variantLabel, or Padrao
\* (a-tilde)>", right after the profile's heading of the items, and the total it
\* prints is the sum of the quantities printed on those lines; so it is for the
\* local-delivery profile and for the online-purchase profile.
C20_MessageLines ==
    (last.op = "openWhatsApp" /\ "lines" \in DOMAIN last.ret) =>
        LET p == cartPage[last.ctx]
            n == Len(p.items)
            msg == last.ret.lines
            at == IF p.city = "RIO_PRETO" THEN 5 ELSE 3
            LineOf(i) == "- " \o ToString(i.qty) \o "x " \o i.name \o " \\u2014 "
                              \o (IF "variantLabel" \in DOMAIN i THEN i.variantLabel
                                  ELSE "Padr\\u00e3o")
        IN  /\ p.city \in {"RIO_PRETO", "OUTRA"}
            /\ msg[at] = (IF p.city = "RIO_PRETO" THEN "Itens:"
                          ELSE "Quero os links/onde comprar destes itens:")
            /\ \A k \in 1..n : msg[at + k] = LineOf(p.items[k])
            /\ msg[at + n + 1] = ""
            /\ msg[at + n + 2] = "Total de itens: " \o ToString(SumQty(p.items))
            /\ Len(msg) = (IF p.city = "RIO_PRETO" THEN n + 15 ELSE n + 7)
            /\ last.ret.message = Join(msg, "\n")

\* Reached: the local-delivery message of a cart of two lines, one without a
\* variant label, with 2 + 3 = 5 items.
C20_Witness ==
    /\ last.op = "openWhatsApp"
    /\ "lines" \in DOMAIN last.ret
    /\ cartPage[1].city = "RIO_PRETO"
    /\ Len(cartPage[1].items) = 2
    /\ last.ret.lines[6] = "- 2x Whey \\u2014 250g"
    /\ last.ret.lines[7] = "- 3x Creatina \\u2014 Padr\\u00e3o"
    /\ last.ret.lines[9] = "Total de itens: 5"

\* The labels the four address fields are printed after, in their order: the
\* bairro, the house number, the reference point, the period of the day.
AddressLabels ==
    << <<"bairro", "- Bairro/Endere\\u00e7o: ">>,
       <<"numeroCasa", "- N\\u00ba: ">>,
       <<"referencia", "- Refer\\u00eancia: ">>,
       <<"periodo", "- Prefer\\u00eancia de per\\u00edodo: ">> >>

HasPrefix(s, pre) == Len(s) >= Len(pre) /\ SubSeq(s, 1, Len(pre)) = pre

\* C21: in the local-delivery message each of the four address fields (bairro,
\* house number, reference point, period of the day) is printed after its label
\* with a value that is not empty: the text the user typed when there is one,
\* and "(nao informado)" (a-tilde) when the field was left empty; the message of
\* the online-purchase profile ends with the availability note and has no
\* address heading and no address field.
C21_AddressFields ==
    (last.op = "openWhatsApp" /\ "lines" \in DOMAIN last.ret) =>
        LET p == cartPage[last.ctx]
            n == Len(p.items)
            msg == last.ret.lines
        IN  IF p.city = "RIO_PRETO"
            THEN /\ Len(msg) = n + 15
                 /\ msg[n + 11] = "Endere\\u00e7o:"
                 /\ \A k \in 1..4 :
                        LET typed == p[AddressLabels[k][1]]
                            label == AddressLabels[k][2]
                            line == msg[n + 11 + k]
                        IN  /\ HasPrefix(line, label)
                            /\ Len(line) > Len(label)
                            /\ typed # "" => line = label \o typed
                            /\ typed = "" => line = label \o "(n\\u00e3o informado)"
            ELSE /\ msg[Len(msg)] = WHATS_AVAILABILITY_NOTE
                 /\ \A j \in 1..Len(msg) :
                        /\ ~HasPrefix(msg[j], "Endere\\u00e7o")
                        /\ \A k \in 1..4 : ~HasPrefix(msg[j], AddressLabels[k][2])

\* Reached: the local-delivery message of a cart of two lines, the bairro typed
\* and the house number left empty.
C21_Witness ==
    /\ last.op = "openWhatsApp"
    /\ "lines" \in DOMAIN last.ret
    /\ cartPage[1].city = "RIO_PRETO"
    /\ Len(cartPage[1].items) = 2
    /\ cartPage[1].bairro = "x 1"
    /\ cartPage[1].numeroCasa = ""
    /\ last.ret.lines[14] = "- Bairro/Endere\\u00e7o: x 1"
    /\ last.ret.lines[15] = "- N\\u00ba: (n\\u00e3o informado)"

\* The characters a link to WhatsApp is made of: those of its fixed part and
\* those of an encoded text.
LinkChars == Unreserved \cup {"%", ":", "/", "?", "="}

\* C22: openWhatsApp() goes no further, throws nothing and makes no link when
\* the cart shown has no line, and when no destination has been chosen; it says
\* so with an alert, whose text differs between the two; it makes a link only
\* when the cart shown has a line and a destination is chosen, the link being
\* https://wa.me/<number>?text=<the message, encoded>, and the message is the
\* local-delivery one exactly when the destination is RIO_PRETO.
C22_CheckoutBlocked ==
    last.op = "openWhatsApp" =>
        LET p == cartPage[last.ctx]
            r == last.ret
            noLines == Len(p.items) = 0
            noCity == p.city = ""
            emptyText == "Seu carrinho est\\u00e1 vazio."
            cityText == "Selecione se voc\\u00ea est\\u00e1 em S\\u00e3o Jos\\u00e9 do Rio Preto ou em outra cidade."
            fixed == Chars("https://wa.me/5517981229285?text=")
        IN  /\ ~last.threw
            /\ emptyText # cityText
            /\ noLines => r = [alert |-> emptyText]
            /\ (~noLines /\ noCity) => r = [alert |-> cityText]
            /\ "href" \in DOMAIN r <=> (~noLines /\ ~noCity)
            /\ "href" \in DOMAIN r =>
                   /\ "alert" \notin DOMAIN r
                   /\ SubSeq(r.href, 1, Len(fixed)) = fixed
                   /\ SubSeq(r.href, Len(fixed) + 1, Len(r.href))
                          = encodeURIComponent(Tokens(r.message))
                   /\ Len(r.href) > Len(fixed)
                   /\ \A n \in 1..Len(r.href) : r.href[n] \in LinkChars
                   /\ r.message = buildMessage(p)
                   /\ (r.lines[1] = "Pedido \\u2013 Cat\\u00e1logo (Entrega local)")
                          <=> (p.city = "RIO_PRETO")
                   /\ (r.lines[1] = "Lista \\u2013 Compra online (fora de S\\u00e3o Jos\\u00e9 do Rio Preto)")
                          <=> (p.city = "OUTRA")

\* Reached: the cart shown has a line and no destination is chosen, and the alert
\* asks for the destination.
C22_Witness ==
    /\ last.op = "openWhatsApp"
    /\ cartPage[1].hydrated
    /\ Len(cartPage[1].items) > 0
    /\ cartPage[1].city = ""
    /\ "alert" \in DOMAIN last.ret
    /\ "href" \notin DOMAIN last.ret

\* What a view's load sets: the product list, the error state, the loading flag.
LoadState(v) == <<v.items, v.loadError, v.loading>>

\* C23: when the catalog view or the product view was torn down before its
\* fetch resolved or rejected, the completion of the fetch (a rejection, or the
\* end of run() after the body was read) updates nothing of that view: the
\* product list, the error state and the loading flag are what they were.
C23_TornDownViewKeepsState ==
    /\ (last.op \in {"load", "fetchRejects"} /\ ~last.arg.view.alive) =>
           LoadState(browse) = LoadState(last.arg.view)
    /\ (last.op \in {"detailLoad", "detailFetchRejects"} /\ ~last.arg.view.alive) =>
           LoadState(detail) = LoadState(last.arg.view)

\* Reached: the product view was left while loading and its run() has now ended
\* with the products of the backend, and the same had happened to the catalog
\* view; both still hold no product and are loading.
C23_Witness ==
    /\ last.op = "detailLoad"
    /\ ~detail.alive
    /\ last.arg.value.ok
    /\ "products" \in DOMAIN last.arg.value.body
    /\ Len(last.arg.value.body.products) = 2
    /\ detail.items = << >> /\ detail.loading /\ detail.loadError = Null
    /\ ~browse.alive /\ browse.stage = "done"
    /\ browse.items = << >> /\ browse.loading /\ browse.loadError = Null

PairOf(i) == <<Get(i, "sku"), Get(i, "variantLabel")>>

\* C26: items of different (sku, variantLabel) pairs have different keys, so
\* addToCart of a pair no stored line has makes a new line, and updateCartItem
\* and removeCartItem leave every line of another pair as it was; so it is also
\* for skus and labels that hold "::" and for the label "default".
C26_KeyAddressesPair ==
    /\ last.op \in {"add", "update", "remove"} =>
           \A n \in 1..Len(last.before) :
               PairOf(last.before[n]) # PairOf(last.arg) =>
                   keyOf(last.before[n]) # keyOf(last.arg)
    /\ (last.op = "add" /\ \A n \in 1..Len(last.before) :
                               PairOf(last.before[n]) # PairOf(last.arg)) =>
           /\ Len(Cart) = Len(last.before) + 1
           /\ SubSeq(Cart, 1, Len(last.before)) = last.before
    /\ last.op \in {"update", "remove"} =>
           LET Other(i) == PairOf(i) # PairOf(last.arg)
           IN  SelectSeq(Cart, Other) = SelectSeq(last.before, Other)

\* C27: with two contexts calling the store in any interleaving of their reads
\* and writes, a step either leaves the persisted value as it is or is a write
\* (the end of a call, or clearCart), and after a write the persisted value is
\* the whole list of that write, made from the list that call had read and from
\* nothing another context wrote meanwhile; that list has one line per identity
\* key and every quantity is at least 1.
C27_LastWriteWins ==
    [][ IF last'.op \in MutatingOps
        THEN LET written == IF last'.op = "clear" THEN << >>
                            ELSE nextListOf(last'.op, last'.before, last'.arg)
             IN  /\ slot' = JSONstringify(written)
                 /\ getCartOf(slot', FALSE) = ReadBack(written)
                 /\ \A m, n \in 1..Len(written) : m # n => keyOf(written[m]) # keyOf(written[n])
                 /\ \A n \in 1..Len(written) : written[n].qty >= 1
        ELSE slot' = slot ]_vars

\* Reached: a call of tab 1 that had read the empty cart has written its one
\* line over the line tab 2 stored in between, which is lost.
C27_Witness ==
    /\ last.op = "add"
    /\ last.ctx = 1
    /\ last.before = << >>
    /\ Len(getCartOf(last.slot0, FALSE)) = 1
    /\ Len(Cart) = 1
    /\ keyOf(Cart[1]) # keyOf(getCartOf(last.slot0, FALSE)[1])

\* The quantity of the line of items whose identity key is k, 0 without one.
LineQty(items, k) ==
    IF findIndex(items, k) = 0 THEN 0 ELSE items[findIndex(items, k)].qty

\* C28: the quantity of the product view stays within 1..99 whatever buttons
\* are pressed; its add, when no product or variant is resolved or the selected
\* variant is SEM_ESTOQUE, leaves the stored cart as it is and emits no change
\* event, and otherwise emits one and raises the line of the product and the
\* selected label by the selected quantity, the other lines staying; the add of
\* a grid card raises the line of the product and the chosen label by exactly
\* 1, whatever the status of that variant.
C28_AddPolicies ==
    /\ detail.open => detail.qty \in 1..99
    /\ last.op = "detailAdd" =>
           LET d == last.arg.view
           IN  IF ~canAddOf(d)
               THEN slot = last.slot0 /\ last.emits = 0
               ELSE LET k == Text(productOf(d)[1].id) \o "::" \o selectedVariantOf(d)[1].label
                    IN  /\ last.emits = 1
                        /\ LineQty(Cart, k) = LineQty(last.before, k) + d.qty
                        /\ Without(Cart, k) = Without(last.before, k)
    /\ last.op = "gridAdd" =>
           LET v == last.arg.view
               shown == pageItemsOf(filteredOf(v.items, v.q, v.category),
                                    safePageOf(v.page, totalPagesOf(Len(filteredOf(v.items, v.q, v.category)))))
               k == Text(shown[1].id) \o "::" \o chosenOf(v.selectedVariant, shown[1])
           IN  /\ last.emits = 1
               /\ LineQty(Cart, k) = LineQty(last.before, k) + 1
               /\ Without(Cart, k) = Without(last.before, k)

\* Reached: add was called in the product view with the variant out of stock
\* selected and a quantity above 1, the cart holding a line: the cart stays,
\* and the grid has stored a line of that same variant.
C28_Witness ==
    /\ last.op = "detailAdd"
    /\ selectedVariantOf(last.arg.view) # << >>
    /\ selectedVariantOf(last.arg.view)[1].status = "SEM_ESTOQUE"
    /\ last.arg.view.qty > 1
    /\ detail.inlineNotice = SEM_ESTOQUE_NOTICE
    /\ LineQty(Cart, "P1::1kg") >= 1
    /\ LineQty(Cart, "P1::250g") >= 1

\* C29: when a button of a line the cart page shows is pressed while the page
\* shows the stored cart, the store acts on that stored line, with or without a
\* variantLabel: after Remove no line of getCart() has its key, after + its
\* stored quantity is one more, after - it is one less but never below 1.
C29_PageAddressesStoredLine ==
    [][ \A n \in 1..Len(Cart) :
            ( /\ cartPage[1].hydrated
              /\ cartPage[1].items = Cart
              /\ last'.op \in {"inc", "dec", "removeItem"}
              /\ last'.arg.sku = getSku(Cart[n])
              /\ last'.arg.variantLabel = getVariantLabel(Cart[n]) )
            => LET k == keyOf(Cart[n])
               IN  CASE last'.op = "removeItem" -> k \notin KeysOf(Cart')
                     [] last'.op = "inc" -> LineQty(Cart', k) = Cart[n].qty + 1
                     [] last'.op = "dec" -> LineQty(Cart', k) = Max(1, Cart[n].qty - 1) ]_vars

\* C30: in the catalog view, whatever loads, search texts, categories, clearings
\* of the filters and presses of the pager came before, the requested page is
\* within 1..totalPages, so safePage is the requested page; and a press of next
\* or previous moves the requested page by exactly one, within that range.
C30_RequestedPageInRange ==
    browse.open =>
        LET total == TotalPages
        IN  /\ browse.page \in 1..total
            /\ safePageOf(browse.page, total) = browse.page
            /\ last.op = "nextPage" => browse.page = last.arg.page + 1
            /\ last.op = "prevPage" => browse.page = last.arg.page - 1

\* Reached: from the last of three pages, previous was pressed: the requested
\* page is 2 of 3.
C30_Witness ==
    /\ last.op = "prevPage"
    /\ last.arg.page = 3
    /\ browse.page = 2
    /\ TotalPages = 3

====
